---- MODULE Spec2Model ----
(***************************************************************************)
(* A model of the exam-document parser service (src/parser/main.py):       *)
(* the upload handler, the background processing of one document           *)
(* (process_pdf / process_docx), the command-line entry main, and the pure *)
(* functions they call (coordinate resolution, image-to-question mapping,  *)
(* the validity filter).                                                   *)
(*                                                                         *)
(* Strings that the code inspects character by character (question text,   *)
(* options, question numbers) are sequences of one-character strings.      *)
(* Coordinates are non-negative integers in page units; the midpoint       *)
(* (y0 + y1) / 2 is compared through its double, so no rounding enters a   *)
(* comparison, and int(mid_y) is (y0 + y1) \div 2.                         *)
(***************************************************************************)
EXTENDS Integers, Sequences, FiniteSets, TLC

VARIABLES
    request,              \* task -> the upload (form fields and document) it handles
    pc,                   \* task -> position of its handler / background task
    questions,            \* task -> the questions list of its process_pdf/process_docx call
    images,               \* task -> the images list of that call
    upload_tasks,         \* task -> upload tasks prepared and not yet awaited
    successful_uploads,   \* task -> counter of awaited uploads that returned True
    handle,               \* task -> [opened, closed]: fitz.open / doc.close calls so far
    result,               \* task -> what process_document (or main) returned, or NoResult
    processing_tasks,     \* the global task registry: task -> record
    current_pdf_filename, \* the global file name
    storage,              \* objects put into the image bucket: [key, task]
    db                    \* rows upserted into the questions table

vars == <<request, pc, questions, images, upload_tasks, successful_uploads,
          handle, result, processing_tasks, current_pdf_filename, storage, db>>

(***************************************************************************)
(* Characters and strings                                                  *)
(***************************************************************************)
\* Python's None, by the type of the value it stands in for
None == "None"          \* a string
NoId == <<>>            \* a question id
NoNumber == <<>>        \* a question number
NoY == 0 - 1            \* a coordinate
NoKey == [none |-> TRUE] \* an image key

Whitespace == {" ", "\t", "\n"}
Digits == <<"0", "1", "2", "3", "4", "5", "6", "7", "8", "9">>
UpperCase == <<"A", "B", "C", "D", "E", "F", "G", "H", "I", "J", "K", "L", "M",
               "N", "O", "P", "Q", "R", "S", "T", "U", "V", "W", "X", "Y", "Z">>
LowerCase == <<"a", "b", "c", "d", "e", "f", "g", "h", "i", "j", "k", "l", "m",
               "n", "o", "p", "q", "r", "s", "t", "u", "v", "w", "x", "y", "z">>

IsDigit(c) == \E i \in DOMAIN Digits : Digits[i] = c

\* str.lower() on one character
lower_char(c) ==
    IF \E i \in DOMAIN UpperCase : UpperCase[i] = c
    THEN LowerCase[CHOOSE i \in DOMAIN UpperCase : UpperCase[i] = c]
    ELSE c

\* str.lower()
lower(s) == [i \in DOMAIN s |-> lower_char(s[i])]

\* str.strip(): drop leading and trailing whitespace
RECURSIVE lstrip(_)
lstrip(s) == IF s # <<>> /\ Head(s) \in Whitespace THEN lstrip(Tail(s)) ELSE s

RECURSIVE rstrip(_)
rstrip(s) ==
    IF s # <<>> /\ s[Len(s)] \in Whitespace THEN rstrip(SubSeq(s, 1, Len(s) - 1)) ELSE s

strip(s) == rstrip(lstrip(s))

\* re.sub(r'\s+', ' ', s): every maximal run of whitespace becomes one blank
RECURSIVE collapse_whitespace(_)
collapse_whitespace(s) ==
    IF s = <<>> THEN <<>>
    ELSE IF Head(s) \in Whitespace
         THEN <<" ">> \o collapse_whitespace(lstrip(s))
         ELSE <<Head(s)>> \o collapse_whitespace(Tail(s))

\* int(s) for a string of decimal digits
RECURSIVE int_of(_)
int_of(s) ==
    IF s = <<>> THEN 0
    ELSE 10 * int_of(SubSeq(s, 1, Len(s) - 1))
         + (CHOOSE d \in 0..9 : Digits[d + 1] = s[Len(s)])

\* str(n) for an integer
RECURSIVE str_of_nat(_)
str_of_nat(n) ==
    IF n < 10 THEN <<Digits[n + 1]>> ELSE str_of_nat(n \div 10) \o <<Digits[(n % 10) + 1]>>

str_of(n) == IF n < 0 THEN <<"-">> \o str_of_nat(0 - n) ELSE str_of_nat(n)

\* The texts a question can carry in the model.  The segmenters strip the
\* captured text, so none starts or ends with whitespace.
TextLen4 == <<"W", "a", "s", "?">>
TextLen5 == <<"W", "o", " ", "1", "?">>
TextPlaceholder ==
    <<"G", "e", "s", "u", "c", "h", "t", ":", " ", "r", "i", "c", "h", "t", "i", "g",
      "/", "f", "a", "l", "s", "c", "h", "?">>
TextPlaceholderVariant ==
    <<"G", "E", "S", "U", "C", "H", "T", ":", "\n", "r", "i", "c", "h", "t", "i", "g",
      "/", "f", "a", "l", "s", "c", "h">>
TextDigits == <<"1", "2", ".", "3", "4">>
TextValid == <<"W", "a", "s", " ", "i", "s", "t", " ", "X", "?">>

Texts == {TextLen4, TextLen5, TextPlaceholder, TextPlaceholderVariant, TextDigits}

\* Option values: absent, or some stripped text
NoOptions == [l \in {"a", "b", "c", "d", "e"} |-> <<>>]
OptionA == [NoOptions EXCEPT !["a"] = <<"x">>]
OptionB == [NoOptions EXCEPT !["b"] = <<"y", " ", "z">>]

(***************************************************************************)
(* Validity filter                                                         *)
(***************************************************************************)
gesucht_patterns ==
    { <<"g", "e", "s", "u", "c", "h", "t", ":", " ", "r", "i", "c", "h", "t", "i", "g",
        "/", "f", "a", "l", "s", "c", "h", "?">>,
      <<"g", "e", "s", "u", "c", "h", "t", ":", " ", "r", "i", "c", "h", "t", "i", "g",
        "/", "f", "a", "l", "s", "c", "h">>,
      <<"g", "e", "s", "u", "c", "h", "t", ":", "r", "i", "c", "h", "t", "i", "g",
        "/", "f", "a", "l", "s", "c", "h", "?">>,
      <<"g", "e", "s", "u", "c", "h", "t", ":", "r", "i", "c", "h", "t", "i", "g",
        "/", "f", "a", "l", "s", "c", "h">> }

\* re.match(r'^[\d\s\.\-\_]+$', text)
only_digits_and_marks(s) ==
    /\ s # <<>>
    /\ \A i \in DOMAIN s : IsDigit(s[i]) \/ s[i] \in Whitespace \/ s[i] \in {".", "-", "_"}

MinQuestionTextLength == 5

non_empty_options(q) == {l \in DOMAIN q.options : strip(q.options[l]) # <<>>}

\* Mutant: the length test lets a text of four characters through
should_ignore_question_short(q) ==
    LET question_text == strip(q.question)
        normalized_question == collapse_whitespace(strip(lower(question_text)))
    IN  IF Len(question_text) < MinQuestionTextLength - 1 THEN TRUE
        ELSE IF non_empty_options(q) = {} THEN TRUE
        ELSE IF normalized_question \in gesucht_patterns THEN TRUE
        ELSE only_digits_and_marks(question_text)

\* Mutant: the check for answer options is missing
should_ignore_question_no_option_check(q) ==
    LET question_text == strip(q.question)
        normalized_question == collapse_whitespace(strip(lower(question_text)))
    IN  IF Len(question_text) < MinQuestionTextLength THEN TRUE
        ELSE IF normalized_question \in gesucht_patterns THEN TRUE
        ELSE only_digits_and_marks(question_text)

should_ignore_question(q) ==
    LET question_text == strip(q.question)
        normalized_question == collapse_whitespace(strip(lower(question_text)))
    IN  IF Len(question_text) < MinQuestionTextLength THEN TRUE
        ELSE IF non_empty_options(q) = {} THEN TRUE
        ELSE IF normalized_question \in gesucht_patterns THEN TRUE
        ELSE only_digits_and_marks(question_text)

(***************************************************************************)
(* Documents                                                               *)
(*                                                                         *)
(* A page-based document is given by what the library calls return on it:  *)
(* whether fitz.open succeeds, whether page.get_text() succeeds, the       *)
(* underscore-separated blocks of its text in document order, the          *)
(* matches of the interrogative-sentence pattern in its whole text,        *)
(* and the images extract_images_with_coords returns.  A block is given by *)
(* what the segmenter's patterns capture in it: kind "hdr" (a "k. Frage:"  *)
(* header, printed at spot = [page, y, yl]) or "alt" (an interrogative     *)
(* sentence only) or "none" (neither), the captured text and options, and  *)
(* what the patterns of parse_question_details find in the block           *)
(* (full_text).  The header of a "hdr" block is what the pattern matched   *)
(* after the digits: the dot, optional space, "Frage" and optional colon.  *)
(***************************************************************************)
PageHeight == 842

\* what the patterns of parse_question_details find in a text: the options,
\* and the captures of "Fach:", "Antwort:" and "Kommentar:"
found_in_text(options, subject, correct_answer, comment) ==
    [ options |-> options, subject |-> subject, correct_answer |-> correct_answer,
      comment |-> comment ]

Max(a, b) == IF a >= b THEN a ELSE b

\* question_pattern / alt_match of extract_questions_with_coords on block b,
\* the block_idx-th (from 0) block of the document
question_data(id, b, block_idx) ==
    [ id |-> id,
      page |-> -1,
      y |-> 0,
      y1_search_term |-> NoY,
      y1 |-> NoY,
      full_text |-> b.full_text,
      question_number |-> IF b.kind = "hdr" THEN b.number ELSE str_of(block_idx + 1),
      question |-> b.question,
      options |-> b.options,
      subject |-> b.subject,
      correct_answer |-> b.correct_answer,
      comment |-> b.comment,
      image_key |-> NoKey ]

\* list.sort(key=(page, int(question_number))): stable
sort_key(q) == <<q.page, int_of(q.question_number)>>
key_leq(a, b) == a[1] < b[1] \/ (a[1] = b[1] /\ a[2] <= b[2])

RECURSIVE insert_sorted(_, _)
insert_sorted(q, s) ==
    IF s = <<>> THEN <<q>>
    ELSE IF key_leq(sort_key(Head(s)), sort_key(q))
         THEN <<Head(s)>> \o insert_sorted(q, Tail(s))
         ELSE <<q>> \o s

RECURSIVE sort_questions(_)
sort_questions(s) ==
    IF s = <<>> THEN <<>>
    ELSE insert_sorted(s[Len(s)], sort_questions(SubSeq(s, 1, Len(s) - 1)))

\* page.search_for("<number>. Frage:") over the pages in order: the headers
\* whose printed text contains the search string, i.e. whose ordinal ends
\* with the digits of number and is followed by ". Frage:"
is_suffix(n, label) ==
    Len(n) <= Len(label) /\ SubSeq(label, Len(label) - Len(n) + 1, Len(label)) = n

\* line 1366: what the search strings put after the question number
SearchLabel == <<".", " ", "F", "r", "a", "g", "e", ":">>

is_prefix(w, s) == Len(w) <= Len(s) /\ SubSeq(s, 1, Len(w)) = w

\* label: the digits of the printed header, printed: what follows them
headers(doc) ==
    {[label |-> doc.blocks[i].number, printed |-> doc.blocks[i].header,
      spot |-> doc.blocks[i].spot] :
        i \in {j \in DOMAIN doc.blocks : doc.blocks[j].kind = "hdr"}}

search_results(doc, number) ==
    {h \in headers(doc) : is_suffix(number, h.label) /\ is_prefix(SearchLabel, h.printed)}

spot_before(a, b) == a.page < b.page \/ (a.page = b.page /\ a.y <= b.y)

\* lines 1361-1388: the first hit on the first page that has one
search_header(doc, q) ==
    IF (q.page = -1 \/ q.y <= 0) /\ search_results(doc, q.question_number) # {}
    THEN LET first_quad ==
                 (CHOOSE h \in search_results(doc, q.question_number) :
                     \A g \in search_results(doc, q.question_number) :
                         spot_before(h.spot, g.spot)).spot
         IN  [q EXCEPT !.page = first_quad.page,
                       !.y = first_quad.y,
                       !.y1_search_term = first_quad.yl]
    ELSE q

MIN_TEXT_AREA_HEIGHT == 75
MARGIN_BELOW_LAST_QUESTION_ON_PAGE == 10
MARGIN_BEFORE_NEXT_QUESTION_TEXT == 5
ABSOLUTE_MIN_QUESTION_BLOCK_HEIGHT == 20

\* Faulty variant: line 1431 is missing, so a lower bound clipped to the
\* next header is not raised to the minimum block height
estimate_y1_without_final_minimum(qs, i) ==
    LET q == qs[i]
        later == {j \in (i + 1)..Len(qs) : qs[j].page = q.page}
        has_next == later # {}
        next_q_start_y == qs[CHOOSE j \in later : \A k \in later : j <= k].y
        base == IF q.y1_search_term # NoY THEN q.y1_search_term ELSE q.y
        estimated == IF has_next
                     THEN next_q_start_y - MARGIN_BEFORE_NEXT_QUESTION_TEXT
                     ELSE PageHeight - MARGIN_BELOW_LAST_QUESTION_ON_PAGE
        y1 == Max(Max(estimated, base + MIN_TEXT_AREA_HEIGHT),
                  q.y + ABSOLUTE_MIN_QUESTION_BLOCK_HEIGHT)
    IN  IF q.page = -1 THEN q.y + ABSOLUTE_MIN_QUESTION_BLOCK_HEIGHT
        ELSE IF has_next /\ y1 >= next_q_start_y
             THEN next_q_start_y - MARGIN_BEFORE_NEXT_QUESTION_TEXT
             ELSE y1

\* lines 1398-1431: the lower bound y1 of question i of the sorted list qs
estimate_y1(qs, i) ==
    LET q == qs[i]
        later == {j \in (i + 1)..Len(qs) : qs[j].page = q.page}
        has_next == later # {}
        next_q_start_y == qs[CHOOSE j \in later : \A k \in later : j <= k].y
        base == IF q.y1_search_term # NoY THEN q.y1_search_term ELSE q.y
        estimated == IF has_next
                     THEN next_q_start_y - MARGIN_BEFORE_NEXT_QUESTION_TEXT
                     ELSE PageHeight - MARGIN_BELOW_LAST_QUESTION_ON_PAGE
        y1 == Max(Max(estimated, base + MIN_TEXT_AREA_HEIGHT),
                  q.y + ABSOLUTE_MIN_QUESTION_BLOCK_HEIGHT)
    IN  IF q.page = -1 THEN q.y + ABSOLUTE_MIN_QUESTION_BLOCK_HEIGHT
        ELSE IF has_next /\ y1 >= next_q_start_y
             THEN Max(next_q_start_y - MARGIN_BEFORE_NEXT_QUESTION_TEXT,
                      q.y + ABSOLUTE_MIN_QUESTION_BLOCK_HEIGHT)
             ELSE y1

FALLBACK_BELOW == 5

\* lines 1435-1458: one position-less question per interrogative sentence
sentence_question(id, sentence, idx) ==
    [ id |-> id,
      page |-> -1,
      y |-> 0,
      y1_search_term |-> NoY,
      y1 |-> NoY,
      full_text |-> found_in_text(NoOptions, <<>>, <<>>, <<>>),
      question_number |-> str_of(idx),
      question |-> sentence,
      options |-> NoOptions,
      subject |-> <<>>,
      correct_answer |-> <<>>,
      comment |-> <<>>,
      image_key |-> NoKey ]

\* line 1444: the matches of the interrogative pattern are stripped, and
\* those of more than 20 characters are kept
valid_sentences(question_sentences) ==
    LET stripped == [k \in DOMAIN question_sentences |-> strip(question_sentences[k])]
        long_enough(s) == Len(s) > 20
    IN  SelectSeq(stripped, long_enough)

\* extract_questions_with_coords(doc) for task t: the ids are fresh uuids,
\* modelled by <<task, creation index>>
extract_questions_with_coords(t, doc) ==
    LET matched(q) == doc.blocks[q.id[2]].kind # "none"
        found == SelectSeq([i \in DOMAIN doc.blocks |->
                               question_data(<<t, i>>, doc.blocks[i], i - 1)], matched)
        sorted == sort_questions(found)
        searched == [i \in DOMAIN sorted |-> search_header(doc, sorted[i])]
        resolved == [i \in DOMAIN searched |->
                        [searched[i] EXCEPT !.y1 = estimate_y1(searched, i)]]
        n == Len(resolved)
        valid == valid_sentences(doc.sentences)
    IN  IF n < FALLBACK_BELOW
        THEN resolved \o
             [k \in DOMAIN valid |->
                 sentence_question(<<t, Len(doc.blocks) + k>>, valid[k], n + k)]
        ELSE resolved

(***************************************************************************)
(* parse_question_details, lines 1538-1557: the options, the subject, the   *)
(* answer and the comment that the segmenter left empty are filled from    *)
(* what the patterns find in full_text                                     *)
(***************************************************************************)
fill_if_empty(current, found) == IF current = <<>> /\ found # <<>> THEN found ELSE current

\* Faulty variant: a found option replaces the option of the segmenter
parse_question_details_overwriting(q) ==
    [q EXCEPT !.options =
                 [l \in DOMAIN q.options |->
                     IF q.full_text.options[l] # <<>>
                     THEN q.full_text.options[l] ELSE q.options[l]],
              !.subject = fill_if_empty(@, q.full_text.subject),
              !.correct_answer = fill_if_empty(@, q.full_text.correct_answer),
              !.comment = fill_if_empty(@, q.full_text.comment)]

parse_question_details(q) ==
    [q EXCEPT !.options =
                 [l \in DOMAIN q.options |->
                     fill_if_empty(q.options[l], q.full_text.options[l])],
              !.subject = fill_if_empty(@, q.full_text.subject),
              !.correct_answer = fill_if_empty(@, q.full_text.correct_answer),
              !.comment = fill_if_empty(@, q.full_text.comment)]

(***************************************************************************)
(* map_images_to_questions                                                 *)
(***************************************************************************)
\* questions_by_page[page], as indices into the questions list, in list order
questions_by_page(qs, page) ==
    {i \in DOMAIN qs : /\ qs[i].page = page
                       /\ qs[i].page >= 0
                       /\ qs[i].y1 # NoY
                       /\ qs[i].y1 >= qs[i].y}

\* q_y0 <= img_mid_y <= q_y1, with img_mid_y = (img_y0 + img_y1) / 2
contains_midpoint(q, img) == 2 * q.y <= img.y0 + img.y1 /\ img.y0 + img.y1 <= 2 * q.y1

span(q) == q.y1 - q.y

\* lines 1797-1801
distance(q, img) ==
    IF img.y1 < q.y THEN q.y - img.y1
    ELSE IF img.y0 > q.y1 THEN img.y0 - q.y1
    ELSE 0

\* line 1784: min(containing_questions, key=span) keeps the first minimum
tightest(qs, S) ==
    CHOOSE i \in S : \A j \in S :
        span(qs[i]) < span(qs[j]) \/ (span(qs[i]) = span(qs[j]) /\ i <= j)

\* lines 1789-1807: `dist < min_dist` keeps the first minimum
nearest(qs, S, img) ==
    CHOOSE i \in S : \A j \in S :
        \/ distance(qs[i], img) < distance(qs[j], img)
        \/ (distance(qs[i], img) = distance(qs[j], img) /\ i <= j)

\* lines 1773-1809: containment pass, then nearest pass; 0 when the page has
\* no candidate question
spatial_match(qs, img) ==
    LET cand == questions_by_page(qs, img.page)
        containing == {i \in cand : contains_midpoint(qs[i], img)}
    IN  IF cand = {} THEN 0
        ELSE IF containing # {} THEN tightest(qs, containing)
        ELSE nearest(qs, cand, img)

\* lines 1816-1837: the question numbered one lower on the same page, if any
quick_fix(qs, img, best) ==
    LET cand == questions_by_page(qs, img.page)
        target_question_number == str_of(int_of(qs[best].question_number) - 1)
        targets == {i \in cand : qs[i].question_number = target_question_number}
    IN  IF targets # {} THEN CHOOSE i \in targets : \A j \in targets : i <= j
        ELSE best

\* f"{question_id}_{page}_{y}.{ext}": the composite is kept as its components
image_key_of(question_id, page, y, ext) ==
    [question_id |-> question_id, page |-> page, y |-> y, ext |-> ext]

\* Faulty variant: a question that already has an image_key keeps it
map_image_first_key_wins(st, k) ==
    LET img == st.images[k]
        best == spatial_match(st.questions, img)
    IN  IF best = 0 THEN st
        ELSE LET best_q == quick_fix(st.questions, img, best)
                 question_id == st.questions[best_q].id
                 image_key == image_key_of(question_id, img.page,
                                           (img.y0 + img.y1) \div 2, img.image_ext)
             IN  [ questions |->
                     IF st.questions[best_q].image_key = NoKey
                     THEN [st.questions EXCEPT ![best_q].image_key = image_key]
                     ELSE st.questions,
                   images |-> [st.images EXCEPT ![k].question_id = question_id] ]

\* one iteration of the loop over images (line 1759), for image number k
map_image(st, k) ==
    LET img == st.images[k]
        best == spatial_match(st.questions, img)
    IN  IF best = 0 THEN st
        ELSE LET best_q == quick_fix(st.questions, img, best)
                 question_id == st.questions[best_q].id
                 image_key == image_key_of(question_id, img.page,
                                           (img.y0 + img.y1) \div 2, img.image_ext)
             IN  [ questions |-> [st.questions EXCEPT ![best_q].image_key = image_key],
                   images |-> [st.images EXCEPT ![k].question_id = question_id] ]

RECURSIVE map_images_from(_, _)
map_images_from(st, k) ==
    IF k > Len(st.images) THEN st ELSE map_images_from(map_image(st, k), k + 1)

map_images_to_questions(qs, imgs) ==
    map_images_from([questions |-> qs, images |-> imgs], 1)

(***************************************************************************)
(* process_pdf up to its first await                                       *)
(***************************************************************************)
MIN_IMAGE_BYTES == 100

\* lines 318-335: images whose data is longer than 100 bytes are kept
valid_images(imgs) ==
    LET ok(img) == img.size > MIN_IMAGE_BYTES IN SelectSeq(imgs, ok)

\* lines 377-403: when no image was assigned, all go to the first question,
\* whose image_key is built from the top edge bbox[1] of the last image
assign_all_to_first(st) ==
    LET assigned_images == {k \in DOMAIN st.images : st.images[k].question_id # NoId}
        first_question == st.questions[1]
        last == st.images[Len(st.images)]
    IN  IF assigned_images = {} /\ st.images # <<>> /\ st.questions # <<>>
        THEN [ questions |->
                 [st.questions EXCEPT ![1].image_key =
                     image_key_of(first_question.id, last.page, last.y0, last.image_ext)],
               images |->
                 [k \in DOMAIN st.images |->
                     [st.images[k] EXCEPT !.question_id = first_question.id]] ]
        ELSE st

\* lines 439-472: the image whose rebuilt key equals the key on the question
found_img_for_upload(q, imgs) ==
    LET matching == {k \in DOMAIN imgs :
                        /\ imgs[k].question_id = q.id
                        /\ image_key_of(q.id, imgs[k].page,
                                        (imgs[k].y0 + imgs[k].y1) \div 2,
                                        imgs[k].image_ext) = q.image_key}
        first == CHOOSE k \in matching : \A j \in matching : k <= j
    IN  IF matching # {} /\ imgs[first].size >= MIN_IMAGE_BYTES THEN first ELSE 0

\* lines 430-485: one upload task per question that carries an image_key
RECURSIVE prepare_uploads(_, _, _, _)
prepare_uploads(qs, imgs, i, tasks) ==
    IF i > Len(qs) THEN tasks
    ELSE LET q == qs[i]
             k == found_img_for_upload(q, imgs)
             processed_image_keys == {tasks[j].filename : j \in DOMAIN tasks}
         IN  IF q.image_key # NoKey /\ k # 0 /\ q.image_key \notin processed_image_keys
             THEN prepare_uploads(qs, imgs, i + 1,
                      Append(tasks, [ filename |-> q.image_key,
                                      size |-> imgs[k].size,
                                      question_id |-> q.id ]))
             ELSE prepare_uploads(qs, imgs, i + 1, tasks)

\* lines 299-485 for the questions qs that extraction returned
process_pdf_front(qs, doc) ==
    LET parsed == [i \in DOMAIN qs |-> parse_question_details(qs[i])]
        imgs == valid_images(doc.images)
        mapped == IF imgs # <<>> /\ parsed # <<>>
                  THEN map_images_to_questions(parsed, imgs)
                  ELSE [questions |-> parsed, images |-> imgs]
        st == assign_all_to_first(mapped)
    IN  [ questions |-> st.questions,
          images |-> st.images,
          upload_tasks |-> prepare_uploads(st.questions, st.images, 1, <<>>) ]

(***************************************************************************)
(* process_docx up to its first await                                      *)
(***************************************************************************)
\* f"{question_id}_docx_{n}.{ext}"
docx_image_key(question_id, n, ext) ==
    [question_id |-> question_id, docx |-> n, ext |-> ext]

\* question_map = {q["question_number"]: q}: the last question of a number
question_map(qs, number) ==
    LET same == {i \in DOMAIN qs : qs[i].question_number = number}
    IN  IF same = {} THEN 0 ELSE CHOOSE i \in same : \A j \in same : j <= i

\* one iteration of the loop of map_images_to_questions_docx; img_idx = k - 1
map_image_docx(st, k) ==
    LET img == st.images[k]
        i == question_map(st.questions, img.associated_question_number)
    IN  IF img.associated_question_number = NoNumber \/ i = 0 THEN st
        ELSE LET question_id == st.questions[i].id
                 existing_images == Cardinality({j \in 1..(k - 1) :
                                        st.images[j].question_id = question_id})
                 image_key == IF st.questions[i].image_key # NoKey
                              THEN docx_image_key(question_id, existing_images + 1,
                                                  img.image_ext)
                              ELSE docx_image_key(question_id, k - 1, img.image_ext)
             IN  [ questions |-> [st.questions EXCEPT ![i].image_key = image_key],
                   images |-> [st.images EXCEPT ![k].question_id = question_id,
                                                ![k].image_key = image_key] ]

RECURSIVE map_images_docx_from(_, _)
map_images_docx_from(st, k) ==
    IF k > Len(st.images) THEN st ELSE map_images_docx_from(map_image_docx(st, k), k + 1)

map_images_to_questions_docx(qs, imgs) ==
    map_images_docx_from([questions |-> qs, images |-> imgs], 1)

\* lines 170-180
RECURSIVE prepare_uploads_docx(_, _, _, _)
prepare_uploads_docx(qs, imgs, i, tasks) ==
    IF i > Len(qs) THEN tasks
    ELSE LET q == qs[i]
             matching == {k \in DOMAIN imgs : imgs[k].image_key = q.image_key}
             first == CHOOSE k \in matching : \A j \in matching : k <= j
             processed_image_keys == {tasks[j].filename : j \in DOMAIN tasks}
         IN  IF q.image_key # NoKey /\ q.image_key \notin processed_image_keys
                /\ matching # {}
             THEN prepare_uploads_docx(qs, imgs, i + 1,
                      Append(tasks, [ filename |-> q.image_key,
                                      size |-> imgs[first].size,
                                      question_id |-> q.id ]))
             ELSE prepare_uploads_docx(qs, imgs, i + 1, tasks)

\* extract_content_from_docx(doc) for task t: the document gives the
\* questions that the paragraph walk produces, and for every image the
\* question that is open where the image is met (0: none); lines 2468-2499
\* record the number of that question with the image
extract_content_from_docx(t, doc) ==
    [ questions |->
        [i \in DOMAIN doc.questions |->
            [ id |-> <<t, i>>,
              page |-> -1, y |-> 0, y1_search_term |-> NoY, y1 |-> NoY,
              full_text |-> found_in_text(NoOptions, <<>>, <<>>, <<>>),
              question_number |-> doc.questions[i].number,
              question |-> doc.questions[i].question,
              options |-> doc.questions[i].options,
              subject |-> doc.questions[i].subject,
              correct_answer |-> <<>>,
              comment |-> <<>>,
              image_key |-> NoKey ]],
      images |->
        [k \in DOMAIN doc.images |->
            [doc.images[k] EXCEPT !.associated_question_number =
                IF doc.images[k].open_question = 0 THEN NoNumber
                ELSE doc.questions[doc.images[k].open_question].number]] ]

\* lines 161-180
process_docx_front(qs, imgs) ==
    LET st == IF imgs # <<>> /\ qs # <<>>
              THEN map_images_to_questions_docx(qs, imgs)
              ELSE [questions |-> qs, images |-> imgs]
    IN  [ questions |-> st.questions,
          images |-> st.images,
          upload_tasks |-> prepare_uploads_docx(st.questions, st.images, 1, <<>>) ]

(***************************************************************************)
(* The results of process_pdf / process_docx                               *)
(***************************************************************************)
NoResult == [status |-> "none"]
EmptyData == [empty |-> TRUE]

formatted_question(q) ==
    [ id |-> q.id,
      question |-> q.question,
      options |-> q.options,
      correctAnswer |-> q.correct_answer,
      subject |-> q.subject,
      comment |-> q.comment,
      image_key |-> q.image_key ]

\* Faulty variant: an ignored question is counted and still appended
filter_step_without_continue(acc, q) ==
    IF should_ignore_question(q)
    THEN [ formatted_questions |-> Append(acc.formatted_questions, formatted_question(q)),
           ignored_questions_count |-> acc.ignored_questions_count + 1 ]
    ELSE [acc EXCEPT !.formatted_questions = Append(@, formatted_question(q))]

\* Faulty variant: an ignored question is dropped without being counted
filter_step_without_count(acc, q) ==
    IF should_ignore_question(q) THEN acc
    ELSE [acc EXCEPT !.formatted_questions = Append(@, formatted_question(q))]

\* lines 531-558 / 208-230: one iteration of the loop over the questions
filter_step(acc, q) ==
    IF should_ignore_question(q)
    THEN [acc EXCEPT !.ignored_questions_count = @ + 1]
    ELSE [acc EXCEPT !.formatted_questions = Append(@, formatted_question(q))]

RECURSIVE filter_from(_, _, _)
filter_from(acc, qs, i) ==
    IF i > Len(qs) THEN acc ELSE filter_from(filter_step(acc, qs[i]), qs, i + 1)

\* lines 528-558 / 206-230
filter_questions(qs) ==
    filter_from([formatted_questions |-> <<>>, ignored_questions_count |-> 0], qs, 1)

\* Faulty variant: an open failure reported as an empty success
failed_result_as_success ==
    [ status |-> "completed", success |-> TRUE, message |-> None,
      data |-> [ total_questions_extracted |-> 0, total_questions_processed |-> 0,
                 questions_ignored |-> 0, images_uploaded |-> 0 ],
      questions |-> <<>> ]

\* Faulty variant: no questions reported as a processing failure
no_questions_result_as_failure ==
    [ status |-> "failed", success |-> FALSE, message |-> "Keine Fragen gefunden",
      data |-> EmptyData, questions |-> <<>> ]

\* lines 584-590 / 254-260
failed_result ==
    [ status |-> "failed", success |-> FALSE, message |-> "processing error",
      data |-> EmptyData, questions |-> <<>> ]

\* lines 285-297 / 151-157
no_questions_result ==
    [ status |-> "completed", success |-> FALSE, message |-> "Keine Fragen gefunden",
      data |-> [ total_questions_extracted |-> 0, total_questions_processed |-> 0,
                 questions_ignored |-> 0, images_uploaded |-> 0 ],
      questions |-> <<>> ]

\* extract_exam_header, lines 1224-1238: the stem of the path that
\* upload_document gives to the stored copy of upload t (line 980), and no
\* year and no semester
extract_exam_header(t) ==
    [ exam_name |-> IF t = 1 THEN "upload_1" ELSE "upload_2",
      exam_year |-> <<>>, exam_semester |-> "" ]

\* Faulty variant: the values taken from the file name come first
exam_fields_extracted_first(t, kind, metadata) ==
    [ exam_name |-> extract_exam_header(t).exam_name,
      exam_year |-> IF kind = "pdf" /\ extract_exam_header(t).exam_year # <<>>
                    THEN extract_exam_header(t).exam_year ELSE metadata.exam_year,
      exam_semester |-> IF kind = "pdf" /\ extract_exam_header(t).exam_semester # ""
                        THEN extract_exam_header(t).exam_semester
                        ELSE metadata.exam_semester,
      default_subject |-> metadata.subject ]

\* lines 269-276 / 137-142: `metadata.get(..) or extracted` for the name,
\* and in process_pdf for the year and the semester
exam_fields(t, kind, metadata) ==
    [ exam_name |-> IF metadata.exam_name # "" THEN metadata.exam_name
                    ELSE extract_exam_header(t).exam_name,
      exam_year |-> IF kind = "pdf" /\ metadata.exam_year = <<>>
                    THEN extract_exam_header(t).exam_year ELSE metadata.exam_year,
      exam_semester |-> IF kind = "pdf" /\ metadata.exam_semester = ""
                        THEN extract_exam_header(t).exam_semester
                        ELSE metadata.exam_semester,
      default_subject |-> metadata.subject ]

\* lines 537-557 / 213-229: the fields of a formatted question that come
\* from the metadata
with_exam_fields(formatted, fields) ==
    [ id |-> formatted.id,
      question |-> formatted.question,
      options |-> formatted.options,
      correctAnswer |-> formatted.correctAnswer,
      subject |-> IF formatted.subject # <<>> THEN formatted.subject
                  ELSE fields.default_subject,
      comment |-> formatted.comment,
      semester |-> fields.exam_semester,
      year |-> fields.exam_year,
      image_key |-> formatted.image_key ]

\* lines 566-578 / 237-249
completed_result(qs, imgs, uploads, fields) ==
    [ status |-> "completed", success |-> TRUE, message |-> None,
      data |-> [ exam_name |-> fields.exam_name,
                 total_questions_extracted |-> Len(qs),
                 total_questions_processed |->
                     Len(filter_questions(qs).formatted_questions),
                 questions_ignored |-> filter_questions(qs).ignored_questions_count,
                 images_uploaded |-> uploads,
                 total_images |-> Len(imgs) ],
      questions |->
          [i \in DOMAIN filter_questions(qs).formatted_questions |->
              with_exam_fields(filter_questions(qs).formatted_questions[i], fields)] ]

(***************************************************************************)
(* The documents and requests of the model                                 *)
(***************************************************************************)
MaxQuestions == 2
MaxImages == 1

Numbers == {<<"1">>, <<"2">>}

SeqsUpTo(S, lo, hi) == UNION {[1..n -> S] : n \in lo..hi}

\* header positions [page, y, yl]: top and bottom of the printed "k. Frage:"
HeaderSpots ==
    { [page |-> 0, y |-> 100, yl |-> 112], [page |-> 0, y |-> 110, yl |-> 122],
      [page |-> 0, y |-> 400, yl |-> 412], [page |-> 1, y |-> 100, yl |-> 112] }

strictly_before(a, b) == a.page < b.page \/ (a.page = b.page /\ a.y < b.y)

\* blocks follow each other down the pages
in_reading_order(blocks) ==
    \A i, j \in DOMAIN blocks :
        (i < j /\ blocks[i].kind = "hdr" /\ blocks[j].kind = "hdr")
            => strictly_before(blocks[i].spot, blocks[j].spot)

hdr_block(number, spot, text, options, scan) ==
    [ kind |-> "hdr", number |-> number, header |-> SearchLabel, spot |-> spot,
      question |-> text, options |-> options, subject |-> <<>>, correct_answer |-> <<>>, comment |-> <<>>,
      full_text |-> found_in_text(scan, <<>>, <<>>, <<>>) ]

alt_block(text, options, scan) ==
    [ kind |-> "alt", number |-> NoNumber, spot |-> [page |-> 0 - 1], question |-> text,
      options |-> options, subject |-> <<>>, correct_answer |-> <<>>, comment |-> <<>>,
      full_text |-> found_in_text(scan, <<>>, <<>>, <<>>) ]

\* a piece of the text that is empty or matches neither pattern (lines 1285,
\* 1293 and 1311): it gives no question, but counts for block_idx
none_block ==
    [ kind |-> "none", number |-> NoNumber, spot |-> [page |-> 0 - 1], question |-> <<>>,
      options |-> NoOptions, subject |-> <<>>, correct_answer |-> <<>>, comment |-> <<>>,
      full_text |-> found_in_text(NoOptions, <<>>, <<>>, <<>>) ]

\* a block in which the segmenter captures the subject `captured` (lines
\* 1343-1345) and parse_question_details finds the subject `found`
with_subject(b, captured, found) ==
    [b EXCEPT !.subject = captured, !.full_text.subject = found]

pdf_image(page, y0, y1, size) ==
    [ page |-> page, y0 |-> y0, y1 |-> y1, image_ext |-> "png", size |-> size,
      question_id |-> NoId ]

pdf_doc(opens, text_ok, blocks, sentences, imgs) ==
    [ kind |-> "pdf", opens |-> opens, text_ok |-> text_ok, blocks |-> blocks,
      sentences |-> sentences, images |-> imgs ]

\* Documents that vary the geometry: numbered headers at any spots, images
\* above, inside, across and below the question spans
GeoBlocks ==
    { hdr_block(n, s, TextValid, OptionA, NoOptions) : n \in Numbers, s \in HeaderSpots }

ImageBoxes == { <<0, 50>>, <<60, 140>>, <<105, 125>>, <<835, 841>> }

GeoImages ==
    { pdf_image(0, b[1], b[2], 2000) : b \in ImageBoxes } \cup { pdf_image(1, 60, 140, 2000) }

GeoDocs ==
    { pdf_doc(TRUE, TRUE, blocks, <<>>, imgs) :
        blocks \in {b \in SeqsUpTo(GeoBlocks, 1, MaxQuestions) : in_reading_order(b)},
        imgs \in SeqsUpTo(GeoImages, 1, MaxImages) }

\* Documents that vary text and options: block i is "i. Frage:" at a fixed spot
text_spot(i) == [page |-> 0, y |-> 100 * i, yl |-> 100 * i + 12]

\* the options come from the segmenter, or for one block from the line scan
TextBlocks(i) ==
    { hdr_block(str_of(i), text_spot(i), text, o, NoOptions) :
        text \in Texts, o \in {NoOptions, OptionA} }
    \cup { hdr_block(str_of(i), text_spot(i), TextLen5, NoOptions, OptionB) }

TextDocs ==
    { pdf_doc(TRUE, TRUE, blocks, <<>>, imgs) :
        blocks \in {b \in SeqsUpTo(UNION {TextBlocks(i) : i \in 1..(MaxQuestions + 1)},
                                   0, MaxQuestions) :
                       \A i \in DOMAIN b : b[i] \in TextBlocks(i)},
        imgs \in {<<>>, <<pdf_image(0, 150, 250, 2000)>>} }

\* Documents with header-less blocks, interrogative sentences for the
\* whole-document fallback, an image of exactly 100 bytes, and documents
\* that cannot be opened or read
Sentence ==
    <<"W", "e", "l", "c", "h", "e", " ", "A", "u", "s", "s", "a", "g", "e", " ",
      "t", "r", "i", "f", "f", "t", " ", "z", "u", "?">>

\* "Wie liegt das Organ?": an interrogative sentence of exactly 20 characters
Sentence20 ==
    <<"W", "i", "e", " ", "l", "i", "e", "g", "t", " ", "d", "a", "s", " ",
      "O", "r", "g", "a", "n", "?">>

MiscBlocks(i) ==
    { hdr_block(str_of(i), text_spot(i), TextValid, OptionA, NoOptions),
      alt_block(TextValid, OptionA, NoOptions) }

MiscDocs ==
    { pdf_doc(TRUE, TRUE, blocks, sentences, imgs) :
        blocks \in {b \in SeqsUpTo(UNION {MiscBlocks(i) : i \in 1..(MaxQuestions + 1)},
                                   0, MaxQuestions) :
                       \A i \in DOMAIN b : b[i] \in MiscBlocks(i)},
        sentences \in {<<>>, <<Sentence>>, <<Sentence20, Sentence>>},
        imgs \in {<<>>, <<pdf_image(0, 150, 250, 2000)>>, <<pdf_image(0, 150, 250, 100)>>} }
    \cup { pdf_doc(FALSE, TRUE, <<>>, <<>>, <<>>), pdf_doc(TRUE, FALSE, <<>>, <<>>, <<>>) }

\* Paragraph-based documents: the questions and images of the paragraph walk
\* an image met while question number `open` of the walk is open; 0 when
\* it is met before the first header or after a separator line
docx_image(open) ==
    [ rel_id |-> "rId1", image_ext |-> "png", size |-> 2000, open_question |-> open,
      associated_question_number |-> NoNumber, question_id |-> NoId, image_key |-> NoKey ]

\* images are met in document order
docx_images(n) ==
    { imgs \in SeqsUpTo({docx_image(open) : open \in 0..n}, 0, MaxImages) :
        \A k1, k2 \in DOMAIN imgs :
            (k1 < k2 /\ imgs[k1].open_question > 0 /\ imgs[k2].open_question > 0)
                => imgs[k1].open_question <= imgs[k2].open_question }

docx_doc(opens, qs, imgs) ==
    [ kind |-> "docx", opens |-> opens, questions |-> qs, images |-> imgs ]

DocxQuestions(i) ==
    { [number |-> n, question |-> c[1], options |-> c[2], subject |-> <<>>] :
        n \in {<<"1">>, str_of(i)},
        c \in {<<TextLen4, OptionA>>, <<TextValid, OptionA>>, <<TextValid, NoOptions>>} }

DocxDocs ==
    UNION { { docx_doc(TRUE, qs, imgs) : imgs \in docx_images(Len(qs)) } :
        qs \in {q \in SeqsUpTo(UNION {DocxQuestions(i) : i \in 1..(MaxQuestions + 1)},
                                 0, MaxQuestions) :
                   \A i \in DOMAIN q : q[i] \in DocxQuestions(i)} }
    \cup { docx_doc(FALSE, <<>>, <<>>) }

\* Documents whose question text is made of digits and punctuation marks
\* other than ".", "-" and "_": "12,34" and "(1) 2!"
TextCommas == <<"1", "2", ",", "3", "4">>
TextBrackets == <<"(", "1", ")", " ", "2", "!">>

Punctuation == {".", "-", "_", ",", ";", ":", "!", "?", "(", ")", "/"}

PunctuationDocs ==
    { pdf_doc(TRUE, TRUE, <<hdr_block(str_of(1), text_spot(1), text, o, NoOptions)>>,
              <<>>, <<>>) :
        text \in {TextCommas, TextBrackets, TextDigits}, o \in {NoOptions, OptionA} }

\* Documents in which a header-less block stands at the place whose index
\* is the number of a header: before "1. Frage:", and after "2. Frage:"
IndexDocs ==
    { pdf_doc(TRUE, TRUE,
              <<alt_block(TextValid, OptionA, NoOptions),
                hdr_block(str_of(1), text_spot(2), TextValid, OptionA, NoOptions)>>,
              <<>>, <<>>),
      pdf_doc(TRUE, TRUE,
              <<hdr_block(str_of(2), text_spot(1), TextValid, OptionA, NoOptions),
                alt_block(TextValid, OptionA, NoOptions)>>,
              <<>>, <<>>) }

Docs == GeoDocs \cup TextDocs \cup MiscDocs \cup DocxDocs \cup PunctuationDocs \cup IndexDocs

\* The upload form.  The file of task t is named after t.
file_name(t, doc) == [stem |-> t, ext |-> IF doc.kind = "pdf" THEN ".pdf" ELSE ".docx"]

Year2022 == <<"2", "0", "2", "2">>

upload(t, doc) ==
    [ filename |-> file_name(t, doc), examName |-> "Biochemie", examYear |-> Year2022,
      examSemester |-> "WS", subject |-> <<>>, visibility |-> "private",
      university_id |-> "", doc |-> doc ]

\* lines 999-1007: the metadata dictionary built from the form
metadata_of(r) ==
    [ exam_name |-> r.examName, exam_year |-> r.examYear,
      exam_semester |-> r.examSemester, subject |-> r.subject ]

SmallDoc == pdf_doc(TRUE, TRUE, <<hdr_block(<<"1">>, text_spot(1), TextValid, OptionA, NoOptions)>>,
                    <<>>, <<>>)

\* uploads that the handler turns down
BadUploads(t) ==
    { [upload(t, SmallDoc) EXCEPT !.examName = ""],
      [upload(t, SmallDoc) EXCEPT !.examYear = <<"2", "2">>],
      [upload(t, SmallDoc) EXCEPT !.examSemester = "XX"],
      [upload(t, SmallDoc) EXCEPT !.visibility = "public"],
      [upload(t, SmallDoc) EXCEPT !.visibility = "university", !.university_id = "no-uuid"],
      [upload(t, SmallDoc) EXCEPT !.filename = [stem |-> t, ext |-> ".txt"]] }

Anatomie == <<"A", "n", "a", "t", "o", "m", "i", "e">>
Physiologie == <<"P", "h", "y", "s", "i", "o", "l", "o", "g", "i", "e">>

\* documents whose questions carry a subject, or none
SubjectDocs ==
    { pdf_doc(TRUE, TRUE,
              <<with_subject(hdr_block(<<"1">>, text_spot(1), TextValid, OptionA, NoOptions),
                             captured, found)>>,
              <<>>, <<>>) : captured \in {<<>>, Anatomie}, found \in {<<>>, Anatomie} }
    \cup { docx_doc(TRUE, <<[number |-> <<"1">>, question |-> TextValid,
                             options |-> OptionA, subject |-> sub]>>, <<>>) :
              sub \in {<<>>, Anatomie} }

\* uploads with and without a year, a semester and a default subject
MetaUploads(t) ==
    { [upload(t, doc) EXCEPT !.examYear = year, !.examSemester = semester,
                             !.subject = sub] :
        doc \in SubjectDocs, year \in {<<>>, Year2022}, semester \in {"", "SS"},
        sub \in {<<>>, Physiologie} }

Uploads(t) == {upload(t, doc) : doc \in Docs} \cup BadUploads(t) \cup MetaUploads(t)

(***************************************************************************)
(* insert_questions_into_db and the task registry                          *)
(***************************************************************************)
NoTask == [status |-> "absent"]

task_record(st, success, message, data) ==
    [status |-> st, success |-> success, message |-> message, data |-> data]

\* lines 1888-1942: the rows prepared for the upsert; the file name is the
\* global current_pdf_filename as it is when the insert runs
bulk_data(formatted, pdf_filename) ==
    LET has_text(q) == Len(strip(q.question)) >= MinQuestionTextLength
        has_option(q) == \E l \in DOMAIN q.options : strip(q.options[l]) # <<>>
        kept(q) == has_text(q) /\ has_option(q)
        rows == SelectSeq(formatted, kept)
    IN  [i \in DOMAIN rows |->
            [id |-> rows[i].id, image_key |-> rows[i].image_key, filename |-> pdf_filename]]

\* Faulty variant: a total failure of the insert leaves the task in processing
record_after_insert_keeps_processing(connected, successful, failed, data) ==
    IF connected /\ failed = 0 /\ successful > 0
    THEN task_record("completed", TRUE, "gespeichert", data)
    ELSE IF connected /\ successful > 0 /\ failed > 0
    THEN task_record("completed", FALSE, "teilweise gespeichert", data)
    ELSE task_record("processing", FALSE, "PDF-Verarbeitung gestartet", data)

\* lines 1140-1176: the record written after the insert returned
\* (successful, failed); connected = FALSE is config.supabase raising
record_after_insert(connected, successful, failed, data) ==
    IF ~connected
    THEN task_record("failed", FALSE, "Fehler beim Speichern", data)
    ELSE IF failed = 0 /\ successful > 0
    THEN task_record("completed", TRUE, "gespeichert", data)
    ELSE IF successful > 0 /\ failed > 0
    THEN task_record("completed", FALSE, "teilweise gespeichert", data)
    ELSE task_record("failed", FALSE, "Speichern fehlgeschlagen", data)

\* lines 1115-1194: process_document_in_background once process_document
\* returned res.  The upsert stores the rows of `stored`: all of them, none
\* (an error response), or those whose single upsert succeeded after the
\* batch raised.
RecordResult(t, res) ==
    /\ result' = [result EXCEPT ![t] = res]
    /\ pc' = [pc EXCEPT ![t] = "done"]
    /\ IF res.status = "completed" /\ res.success
       THEN IF res.questions = <<>>
            THEN /\ processing_tasks' = [processing_tasks EXCEPT ![t] =
                        task_record("completed", FALSE, "keine Fragen gefunden", res.data)]
                 /\ db' = db
            ELSE LET bulk == bulk_data(res.questions, current_pdf_filename)
                 IN  \E connected \in BOOLEAN, stored \in SUBSET (DOMAIN bulk) :
                        /\ ~connected => stored = {}
                        /\ db' = db \cup {bulk[i] : i \in stored}
                        /\ processing_tasks' = [processing_tasks EXCEPT ![t] =
                               record_after_insert(connected, Cardinality(stored),
                                   Len(bulk) - Cardinality(stored), res.data)]
       ELSE IF res.status = "completed"
       THEN /\ processing_tasks' = [processing_tasks EXCEPT ![t] =
                   task_record("completed", FALSE, res.message, res.data)]
            /\ db' = db
       ELSE /\ processing_tasks' = [processing_tasks EXCEPT ![t] =
                   task_record("failed", FALSE, res.message, res.data)]
            /\ db' = db

(***************************************************************************)
(* The service                                                             *)
(***************************************************************************)
is_four_digit_year(y) == Len(y) = 4 /\ \A i \in DOMAIN y : IsDigit(y[i])

\* uuid.UUID(university_id) succeeds
is_uuid(u) == u = "uuid"

\* lines 896-975: the form passes every check of the handler
accepted(r) ==
    /\ r.examName # ""
    /\ (r.examYear = <<>> \/ is_four_digit_year(r.examYear))
    /\ r.examSemester \in {"", "WS", "SS"}
    /\ r.visibility \in {"private", "university"}
    /\ (r.visibility = "university" /\ r.university_id # "") => is_uuid(r.university_id)
    /\ r.filename.ext \in {".pdf", ".docx"}

Tasks == DOMAIN request

\* upload_document up to `await file.read()`: the global file name is set
\* before anything is checked
UploadDocument(t) ==
    /\ pc[t] = "received"
    /\ current_pdf_filename' = request[t].filename
    /\ pc' = [pc EXCEPT ![t] = IF accepted(request[t]) THEN "reading" ELSE "rejected"]
    /\ UNCHANGED <<request, questions, images, upload_tasks, successful_uploads,
                   handle, result, processing_tasks, storage, db>>

\* upload_document after the read: the task is registered and the
\* background task queued; the answer is 202
RegisterTask(t) ==
    /\ pc[t] = "reading"
    /\ processing_tasks' = [processing_tasks EXCEPT ![t] =
           [status |-> "processing", message |-> "PDF-Verarbeitung gestartet"]]
    /\ pc' = [pc EXCEPT ![t] = "queued"]
    /\ UNCHANGED <<request, questions, images, upload_tasks, successful_uploads,
                   handle, result, current_pdf_filename, storage, db>>

opened_and_closed == [opened |-> 1, closed |-> 1]
opened_only == [opened |-> 1, closed |-> 0]

\* process_document_in_background from its start to the first await of
\* process_pdf / process_docx, or to its end when nothing is awaited
StartProcessing(t) ==
    LET doc == request[t].doc
        is_pdf == doc.kind = "pdf"
        extracted == IF is_pdf
                     THEN [questions |-> extract_questions_with_coords(t, doc), images |-> <<>>]
                     ELSE extract_content_from_docx(t, doc)
        front == IF is_pdf
                 THEN process_pdf_front(extracted.questions, doc)
                 ELSE process_docx_front(extracted.questions, extracted.images)
        closed_handle == IF is_pdf THEN opened_and_closed ELSE handle[t]
    IN  /\ pc[t] = "queued"
        /\ UNCHANGED <<request, current_pdf_filename, storage, successful_uploads>>
        /\ IF ~doc.opens
           THEN /\ RecordResult(t, failed_result)
                /\ UNCHANGED <<questions, images, upload_tasks, handle>>
           ELSE IF is_pdf /\ ~doc.text_ok
           THEN /\ RecordResult(t, failed_result)
                /\ handle' = [handle EXCEPT ![t] = opened_and_closed]
                /\ UNCHANGED <<questions, images, upload_tasks>>
           ELSE IF extracted.questions = <<>>
           THEN /\ RecordResult(t, no_questions_result)
                /\ handle' = [handle EXCEPT ![t] = closed_handle]
                /\ UNCHANGED <<questions, images, upload_tasks>>
           ELSE /\ questions' = [questions EXCEPT ![t] = front.questions]
                /\ images' = [images EXCEPT ![t] = front.images]
                /\ IF front.upload_tasks # <<>>
                   THEN /\ upload_tasks' = [upload_tasks EXCEPT ![t] = front.upload_tasks]
                        /\ pc' = [pc EXCEPT ![t] = "uploading"]
                        /\ handle' = [handle EXCEPT ![t] =
                               IF is_pdf THEN opened_only ELSE handle[t]]
                        /\ UNCHANGED <<result, processing_tasks, db>>
                   ELSE /\ RecordResult(t, completed_result(front.questions, front.images, 0,
                                 exam_fields(t, doc.kind, metadata_of(request[t]))))
                        /\ handle' = [handle EXCEPT ![t] = closed_handle]
                        /\ UNCHANGED upload_tasks

\* `await future` for the next upload task: upload_image_async returns
\* False for data under 100 bytes and on any storage error
AwaitUpload(t) ==
    /\ pc[t] = "uploading"
    /\ upload_tasks[t] # <<>>
    /\ LET task == Head(upload_tasks[t])
       IN  \E uploaded \in BOOLEAN :
              /\ uploaded => task.size >= MIN_IMAGE_BYTES
              /\ storage' = IF uploaded
                            THEN storage \cup {[key |-> task.filename, task |-> t]}
                            ELSE storage
              /\ successful_uploads' = [successful_uploads EXCEPT ![t] =
                                           IF uploaded THEN @ + 1 ELSE @]
    /\ upload_tasks' = [upload_tasks EXCEPT ![t] = Tail(@)]
    /\ UNCHANGED <<request, pc, questions, images, handle, result, processing_tasks,
                   current_pdf_filename, db>>

\* process_pdf / process_docx after the last await, and the rest of
\* process_document_in_background
FinishProcessing(t) ==
    /\ pc[t] = "uploading"
    /\ upload_tasks[t] = <<>>
    /\ RecordResult(t, completed_result(questions[t], images[t], successful_uploads[t],
                          exam_fields(t, request[t].doc.kind, metadata_of(request[t]))))
    /\ handle' = [handle EXCEPT ![t] =
           IF request[t].doc.kind = "pdf" THEN opened_and_closed ELSE @]
    /\ UNCHANGED <<request, questions, images, upload_tasks, successful_uploads,
                   current_pdf_filename, storage>>

InitService(uploads) ==
    /\ request = uploads
    /\ pc = [t \in DOMAIN uploads |-> "received"]
    /\ questions = [t \in DOMAIN uploads |-> <<>>]
    /\ images = [t \in DOMAIN uploads |-> <<>>]
    /\ upload_tasks = [t \in DOMAIN uploads |-> <<>>]
    /\ successful_uploads = [t \in DOMAIN uploads |-> 0]
    /\ handle = [t \in DOMAIN uploads |-> [opened |-> 0, closed |-> 0]]
    /\ result = [t \in DOMAIN uploads |-> NoResult]
    /\ processing_tasks = [t \in DOMAIN uploads |-> NoTask]
    /\ current_pdf_filename = [stem |-> 0, ext |-> ""]
    /\ storage = {}
    /\ db = {}

\* one upload
Init == \E r \in Uploads(1) : InitService([t \in {1} |-> r])

Next ==
    \/ \E t \in Tasks : UploadDocument(t)
    \/ \E t \in Tasks : RegisterTask(t)
    \/ \E t \in Tasks : StartProcessing(t)
    \/ \E t \in Tasks : AwaitUpload(t)
    \/ \E t \in Tasks : FinishProcessing(t)

Spec == Init /\ [][Next]_vars

(***************************************************************************)
(* Two uploads handled by the one server process                           *)
(***************************************************************************)
ImageDoc ==
    pdf_doc(TRUE, TRUE, <<hdr_block(<<"1">>, text_spot(1), TextValid, OptionA, NoOptions)>>,
            <<>>, <<pdf_image(0, 150, 250, 2000)>>)

SmallDocx ==
    docx_doc(TRUE, <<[number |-> <<"1">>, question |-> TextValid, options |-> OptionA,
                      subject |-> <<>>]>>,
             <<docx_image(1)>>)

ServiceUploads(t) ==
    { upload(t, SmallDoc), upload(t, ImageDoc), upload(t, SmallDocx),
      [upload(t, SmallDoc) EXCEPT !.examName = ""] }

InitTwo ==
    \E a \in ServiceUploads(1), b \in ServiceUploads(2) :
        InitService([t \in {1, 2} |-> IF t = 1 THEN a ELSE b])

SpecTwo == InitTwo /\ [][Next]_vars

(***************************************************************************)
(* The command line: main(pdf_path), and extract_questions_with_coords     *)
(* called with a path                                                      *)
(***************************************************************************)
invocation(t, entry, doc) == [entry |-> entry, filename |-> file_name(t, doc), doc |-> doc]

\* main, lines 2104-2112: fitz.open
MainOpen(t) ==
    /\ pc[t] = "main"
    /\ IF request[t].doc.opens
       THEN /\ handle' = [handle EXCEPT ![t] = opened_only]
            /\ pc' = [pc EXCEPT ![t] = "main_opened"]
            /\ UNCHANGED result
       ELSE /\ result' = [result EXCEPT ![t] = [status |-> "error"]]
            /\ pc' = [pc EXCEPT ![t] = "done"]
            /\ UNCHANGED handle
    /\ UNCHANGED <<request, questions, images, upload_tasks, successful_uploads,
                   processing_tasks, current_pdf_filename, storage, db>>

\* line 2138: the key main expects for an image is built from bbox[1]
main_expected_key(q, img) == image_key_of(q.id, img.page, img.y0, img.image_ext)

\* lines 2126-2155: the keys for which main finds image data
main_found_keys(qs, imgs) ==
    { qs[i].image_key : i \in {j \in DOMAIN qs :
        /\ qs[j].image_key # NoKey
        /\ \E k \in DOMAIN imgs :
              main_expected_key(qs[j], imgs[k]) = qs[j].image_key /\ imgs[k].size > 0} }

\* line 2159: main passes the extracted questions, which have no "options"
\* entry, so every one of them reads as having no options
main_rows(qs, pdf_filename) ==
    bulk_data([i \in DOMAIN qs |->
                  [ id |-> qs[i].id, question |-> qs[i].question,
                    options |-> NoOptions, image_key |-> qs[i].image_key ]],
              pdf_filename)

\* main, lines 2113-2168: everything after the open.  An exception of
\* extract_questions_with_coords is caught by the handler of line 2166,
\* which returns without reaching doc.close() of line 2121.
MainRun(t) ==
    LET doc == request[t].doc
        qs == extract_questions_with_coords(t, doc)
        parsed == [i \in DOMAIN qs |-> parse_question_details(qs[i])]
        st == map_images_to_questions(parsed, doc.images)
        rows == main_rows(st.questions, current_pdf_filename)
    IN  /\ pc[t] = "main_opened"
        /\ pc' = [pc EXCEPT ![t] = "done"]
        /\ IF ~doc.text_ok
           THEN /\ result' = [result EXCEPT ![t] = [status |-> "error"]]
                /\ UNCHANGED <<questions, images, handle, storage, db>>
           ELSE /\ questions' = [questions EXCEPT ![t] = st.questions]
                /\ images' = [images EXCEPT ![t] = st.images]
                /\ handle' = [handle EXCEPT ![t] = opened_and_closed]
                /\ \E uploaded \in SUBSET main_found_keys(st.questions, st.images) :
                      storage' = storage \cup {[key |-> k, task |-> t] : k \in uploaded}
                /\ \E stored \in SUBSET (DOMAIN rows) :
                      db' = db \cup {rows[i] : i \in stored}
                /\ result' = [result EXCEPT ![t] = [status |-> "success"]]
        /\ UNCHANGED <<request, upload_tasks, successful_uploads, processing_tasks,
                       current_pdf_filename>>

\* extract_questions_with_coords(path), lines 1245-1252: the open
ExtractOpen(t) ==
    /\ pc[t] = "extract"
    /\ IF request[t].doc.opens
       THEN /\ handle' = [handle EXCEPT ![t] = opened_only]
            /\ pc' = [pc EXCEPT ![t] = "extract_opened"]
            /\ UNCHANGED result
       ELSE /\ result' = [result EXCEPT ![t] = [status |-> "returned"]]
            /\ pc' = [pc EXCEPT ![t] = "done"]
            /\ UNCHANGED handle
    /\ UNCHANGED <<request, questions, images, upload_tasks, successful_uploads,
                   processing_tasks, current_pdf_filename, storage, db>>

\* lines 1262-1469: the extraction, and doc.close() in the finally clause
ExtractRun(t) ==
    /\ pc[t] = "extract_opened"
    /\ pc' = [pc EXCEPT ![t] = "done"]
    /\ handle' = [handle EXCEPT ![t] = opened_and_closed]
    /\ IF request[t].doc.text_ok
       THEN /\ questions' = [questions EXCEPT ![t] =
                   extract_questions_with_coords(t, request[t].doc)]
            /\ result' = [result EXCEPT ![t] = [status |-> "returned"]]
       ELSE /\ result' = [result EXCEPT ![t] = [status |-> "raised"]]
            /\ UNCHANGED questions
    /\ UNCHANGED <<request, images, upload_tasks, successful_uploads, processing_tasks,
                   current_pdf_filename, storage, db>>

\* Documents with several images on the page of their questions
MaxMappedImages == 2

MappedDocs ==
    { pdf_doc(TRUE, TRUE, blocks, <<>>, imgs) :
        blocks \in { <<hdr_block(<<"1">>, text_spot(1), TextValid, OptionA, NoOptions)>>,
                     <<hdr_block(<<"1">>, text_spot(1), TextValid, OptionA, NoOptions),
                       hdr_block(<<"2">>, text_spot(4), TextValid, OptionA, NoOptions)>> },
        imgs \in SeqsUpTo({pdf_image(0, b[1], b[2], 2000) : b \in ImageBoxes},
                          2, MaxMappedImages) }

PdfDocs == GeoDocs \cup {d \in MiscDocs : d.kind = "pdf"} \cup MappedDocs

InitCli ==
    \E entry \in {"main", "extract"}, doc \in PdfDocs :
        /\ request = [t \in {1} |-> invocation(1, entry, doc)]
        /\ pc = [t \in {1} |-> entry]
        /\ questions = [t \in {1} |-> <<>>]
        /\ images = [t \in {1} |-> <<>>]
        /\ upload_tasks = [t \in {1} |-> <<>>]
        /\ successful_uploads = [t \in {1} |-> 0]
        /\ handle = [t \in {1} |-> [opened |-> 0, closed |-> 0]]
        /\ result = [t \in {1} |-> NoResult]
        /\ processing_tasks = [t \in {1} |-> NoTask]
        /\ current_pdf_filename = [stem |-> 0, ext |-> ""]
        /\ storage = {}
        /\ db = {}

NextCli ==
    \/ \E t \in Tasks : MainOpen(t)
    \/ \E t \in Tasks : MainRun(t)
    \/ \E t \in Tasks : ExtractOpen(t)
    \/ \E t \in Tasks : ExtractRun(t)

SpecCli == InitCli /\ [][NextCli]_vars

(***************************************************************************)
(* The text of a page-based document                                       *)
(*                                                                         *)
(* The patterns that extract_questions_with_coords and                     *)
(* parse_question_details apply to the text, computed on sequences of      *)
(* characters.  Positions count from 1; a match is given by the positions  *)
(* it covers.                                                              *)
(***************************************************************************)
Newline == "\n"
OptionLetters == <<"A", "B", "C", "D", "E">>
UpperOptionLetters == {"A", "B", "C", "D", "E"}
LowerOptionLetters == {"a", "b", "c", "d", "e"}
\* Faulty variant: only the marker style "A)" is read
MarkerEndsParenOnly == {")"}

\* [\)/]
MarkerEnds == {")", "/"}
SentenceEnds == {".", "!", "?"}

Fach == <<"F", "a", "c", "h", ":">>
Antwort == <<"A", "n", "t", "w", "o", "r", "t", ":">>
Kommentar == <<"K", "o", "m", "m", "e", "n", "t", "a", "r", ":">>
Frage == <<"F", "r", "a", "g", "e">>

\* the literal w matches at position p of s (re.IGNORECASE when ignore_case)
matches_at(s, p, w, ignore_case) ==
    /\ p >= 1
    /\ p + Len(w) - 1 <= Len(s)
    /\ \A i \in 1..Len(w) :
          \/ s[p + i - 1] = w[i]
          \/ ignore_case /\ lower_char(s[p + i - 1]) = lower_char(w[i])

\* \s* from position p: the position of the first character that is not
\* whitespace, Len(s) + 1 when there is none
skip_ws(s, p) ==
    CHOOSE q \in p..(Len(s) + 1) :
        /\ q > Len(s) \/ s[q] \notin Whitespace
        /\ \A r \in p..(q - 1) : s[r] \in Whitespace

\* ^ under re.MULTILINE
line_start(s, p) == p = 1 \/ (p >= 2 /\ p <= Len(s) + 1 /\ s[p - 1] = Newline)

\* $ without re.MULTILINE, and with it
string_end(s, p) == p > Len(s) \/ (p = Len(s) /\ s[p] = Newline)
line_end(s, p) == p > Len(s) \/ s[p] = Newline

\* [A-E][\)/] at position p
marker_at(s, p, ignore_case) ==
    /\ p >= 1
    /\ p + 1 <= Len(s)
    /\ s[p + 1] \in MarkerEnds
    /\ s[p] \in UpperOptionLetters \/ (ignore_case /\ s[p] \in LowerOptionLetters)

\* (?=\s*[A-E][\)/]|\s*Fach:|\s*Antwort:|\s*Kommentar:|$) at position p; the
\* pattern of the header (multiline) ends at a line end as well
option_lookahead(s, p, ignore_case, multiline) ==
    \/ marker_at(s, skip_ws(s, p), ignore_case)
    \/ matches_at(s, skip_ws(s, p), Fach, ignore_case)
    \/ matches_at(s, skip_ws(s, p), Antwort, ignore_case)
    \/ matches_at(s, skip_ws(s, p), Kommentar, ignore_case)
    \/ IF multiline THEN line_end(s, p) ELSE string_end(s, p)

\* \s*(.*?)(?=...) from position p, stripped: the lazy capture ends at the
\* first position where the lookahead holds
option_capture(s, p, ignore_case, multiline) ==
    LET from == skip_ws(s, p)
        stops == {e \in from..(Len(s) + 1) : option_lookahead(s, e, ignore_case, multiline)}
        to == CHOOSE e \in stops : \A r \in stops : e <= r
    IN  [text |-> strip(SubSeq(s, from, to - 1)), end |-> to]

\* lines 1337-1340 (and 1308-1311): re.search of
\* {letter}[\)/]\s*(.*?)(?=...) with DOTALL | IGNORECASE; <<>> without a match
segmenter_option(block, letter) ==
    LET small == lower_char(letter)
        starts == {p \in 1..(Len(block) - 1) :
                      /\ block[p + 1] \in MarkerEnds
                      /\ block[p] = letter \/ block[p] = small}
        first == CHOOSE p \in starts : \A r \in starts : p <= r
    IN  IF starts = {} THEN <<>>
        ELSE option_capture(block, first + 2, TRUE, FALSE).text

segmenter_options(block) ==
    [l \in DOMAIN NoOptions |->
        segmenter_option(block,
            OptionLetters[CHOOSE i \in DOMAIN OptionLetters :
                              lower_char(OptionLetters[i]) = l])]

\* Fach:\s*(.*?)(?=\s*Antwort:|\s*Kommentar:|$) and its two siblings: the
\* capture that follows the first `label`, up to one of the labels `stops`
\* or the end; with_ws: the lookahead skips whitespace first (lines
\* 1343-1353, which also ignore case), or does not (lines 1545-1557)
label_capture(s, label, stops, ignore_case, with_ws) ==
    LET starts == {p \in 1..Len(s) : matches_at(s, p, label, ignore_case)}
        first == CHOOSE p \in starts : \A r \in starts : p <= r
        from == skip_ws(s, first + Len(label))
        stop(e) == \/ string_end(s, e)
                   \/ \E w \in stops :
                         matches_at(s, IF with_ws THEN skip_ws(s, e) ELSE e, w, ignore_case)
        ends == {e \in from..(Len(s) + 1) : stop(e)}
        to == CHOOSE e \in ends : \A r \in ends : e <= r
    IN  IF starts = {} THEN <<>> ELSE strip(SubSeq(s, from, to - 1))

\* the end of the run of digits that starts at position p
digits_end(s, p) ==
    CHOOSE q \in p..(Len(s) + 1) :
        /\ q > Len(s) \/ ~IsDigit(s[q])
        /\ \A r \in p..(q - 1) : IsDigit(s[r])

\* ^\s*(\d+)\.\s*Frage:?\s* with its digits at position h: the position
\* after it, 0 when it does not match there
header_at(s, h) ==
    LET d == digits_end(s, h)
        f == skip_ws(s, d + 1)
        after == IF matches_at(s, f + Len(Frage), <<":">>, FALSE)
                 THEN f + Len(Frage) + 1 ELSE f + Len(Frage)
    IN  IF /\ h <= Len(s) /\ IsDigit(s[h])
           /\ (h = 1 \/ s[h - 1] \in Whitespace)
           /\ \E p \in 1..h : line_start(s, p) /\ skip_ws(s, p) = h
           /\ matches_at(s, d, <<".">>, FALSE)
           /\ matches_at(s, f, Frage, FALSE)
        THEN after ELSE 0

\* question_pattern.search(block), lines 1281-1318: the number and the text
question_match(block) ==
    LET starts == {h \in 1..Len(block) : header_at(block, h) # 0}
        first == CHOOSE h \in starts : \A r \in starts : h <= r
    IN  IF starts = {} THEN [found |-> FALSE]
        ELSE [ found |-> TRUE,
               number |-> SubSeq(block, first, digits_end(block, first) - 1),
               header |-> SubSeq(block, digits_end(block, first),
                                 header_at(block, first) - 1),
               text |-> option_capture(block, header_at(block, first), FALSE, TRUE).text ]

Interrogatives ==
    { <<"W", "a", "s">>, <<"W", "e", "l", "c", "h", "e">>, <<"W", "o">>,
      <<"W", "a", "n", "n">>, <<"W", "i", "e">>, <<"W", "a", "r", "u", "m">> }

\* the position after the interrogative that starts at position h, 0 if none
interrogative_at(s, h) ==
    IF \E w \in Interrogatives : matches_at(s, h, w, TRUE)
    THEN h + Len(CHOOSE w \in Interrogatives : matches_at(s, h, w, TRUE))
    ELSE 0

\* line 1291: ^\s*(?:Was|Welche|Wo|Wann|Wie|Warum).*?\? with DOTALL |
\* IGNORECASE | MULTILINE; group(0).strip()
alt_match(block) ==
    LET ends(h) == {e \in interrogative_at(block, h)..Len(block) : block[e] = "?"}
        starts == {h \in 1..Len(block) :
                      /\ interrogative_at(block, h) # 0
                      /\ \E p \in 1..h : line_start(block, p) /\ skip_ws(block, p) = h
                      /\ ends(h) # {}}
        first == CHOOSE h \in starts : \A r \in starts : h <= r
        last == CHOOSE e \in ends(first) : \A r \in ends(first) : e <= r
    IN  IF starts = {} THEN [found |-> FALSE]
        ELSE [found |-> TRUE, text |-> strip(SubSeq(block, first, last))]

\* str.split(sep) for a separator of one character
RECURSIVE split_at(_, _)
split_at(s, sep) ==
    IF \A i \in DOMAIN s : s[i] # sep THEN <<s>>
    ELSE LET first == CHOOSE i \in DOMAIN s : s[i] = sep /\ \A r \in 1..(i - 1) : s[r] # sep
         IN  <<SubSeq(s, 1, first - 1)>> \o split_at(SubSeq(s, first + 1, Len(s)), sep)

MIN_SEPARATOR_LENGTH == 10

\* line 1275: re.split(r'_{10,}', full_text)
RECURSIVE split_blocks(_)
split_blocks(full_text) ==
    LET run_end(p) == CHOOSE q \in p..(Len(full_text) + 1) :
                          /\ q > Len(full_text) \/ full_text[q] # "_"
                          /\ \A r \in p..(q - 1) : full_text[r] = "_"
        starts == {p \in DOMAIN full_text :
                      /\ full_text[p] = "_"
                      /\ run_end(p) - p >= MIN_SEPARATOR_LENGTH}
        first == CHOOSE p \in starts : \A r \in starts : p <= r
    IN  IF starts = {} THEN <<full_text>>
        ELSE <<SubSeq(full_text, 1, first - 1)>>
             \o split_blocks(SubSeq(full_text, run_end(first), Len(full_text)))

\* " ".join(lines)
RECURSIVE join_lines(_)
join_lines(lines) ==
    IF lines = <<>> THEN <<>>
    ELSE IF Len(lines) = 1 THEN lines[1]
    ELSE lines[1] \o <<" ">> \o join_lines(Tail(lines))

\* lines 1507-1513: the line opens an option or a label
closes_option(line) ==
    \/ marker_at(line, skip_ws(line, 1), FALSE)
    \/ matches_at(line, skip_ws(line, 1), Fach, TRUE)
    \/ matches_at(line, skip_ws(line, 1), Antwort, TRUE)
    \/ matches_at(line, skip_ws(line, 1), Kommentar, TRUE)

\* lines 1493-1523: the option text collected for the marker line i
line_option(lines, i) ==
    LET line == strip(lines[i])
        content == strip(SubSeq(line, 3, Len(line)))
        stop == CHOOSE j \in (i + 1)..(Len(lines) + 1) :
                    /\ j > Len(lines) \/ closes_option(lines[j])
                    /\ \A r \in (i + 1)..(j - 1) : ~closes_option(lines[r])
        not_blank(l) == l # <<>>
        following == SelectSeq([k \in 1..(stop - i - 1) |-> strip(lines[i + k])], not_blank)
    IN  strip(join_lines((IF content # <<>> THEN <<content>> ELSE <<>>) \o following))

\* lines 1490-1523: the line-based pass; `any` tells whether it found a
\* marker line at all
line_options(full_text) ==
    LET lines == split_at(full_text, Newline)
        marker_lines(letter) ==
            {i \in DOMAIN lines :
                /\ marker_at(strip(lines[i]), 1, FALSE)
                /\ strip(lines[i])[1] = letter}
        last(letter) == CHOOSE i \in marker_lines(letter) :
                            \A r \in marker_lines(letter) : r <= i
    IN  [ any |-> \E i \in DOMAIN OptionLetters : marker_lines(OptionLetters[i]) # {},
          options |->
            [l \in DOMAIN NoOptions |->
                LET letter == OptionLetters[CHOOSE i \in DOMAIN OptionLetters :
                                                lower_char(OptionLetters[i]) = l]
                IN  IF marker_lines(letter) = {} THEN <<>>
                    ELSE line_option(lines, last(letter))] ]

\* lines 1526-1530: re.finditer of ([A-E])[\)/]\s*(.*?)(?=...) with DOTALL,
\* from position p on; a later match of a letter replaces an earlier one
RECURSIVE regex_options_from(_, _, _)
regex_options_from(full_text, p, options) ==
    LET starts == {h \in p..Len(full_text) : marker_at(full_text, h, FALSE)}
        first == CHOOSE h \in starts : \A r \in starts : h <= r
        capture == option_capture(full_text, first + 2, FALSE, FALSE)
    IN  IF starts = {} THEN options
        ELSE regex_options_from(full_text, capture.end,
                 [options EXCEPT ![lower_char(full_text[first])] = capture.text])

\* lines 1483-1557: what parse_question_details finds in full_text
scan_text(full_text) ==
    found_in_text(
        LET by_line == line_options(full_text)
        IN  IF by_line.any THEN by_line.options
            ELSE regex_options_from(full_text, 1, NoOptions),
        label_capture(full_text, Fach, {Antwort, Kommentar}, FALSE, FALSE),
        label_capture(full_text, Antwort, {Fach, Kommentar}, FALSE, FALSE),
        label_capture(full_text, Kommentar, {Fach, Antwort}, FALSE, FALSE))

\* line 1443: re.findall of ^\s*(?:[^.!?]*?(?:Was|...)[^.!?]*?\?) with
\* IGNORECASE | MULTILINE, from position p on
RECURSIVE question_sentences_from(_, _)
question_sentences_from(text, p) ==
    LET clear(a, b) == \A r \in a..b : text[r] \notin SentenceEnds
        ends(h) == {e \in interrogative_at(text, h)..Len(text) :
                       text[e] = "?" /\ clear(interrogative_at(text, h), e - 1)}
        words(s) == {h \in s..Len(text) :
                        /\ interrogative_at(text, h) # 0
                        /\ clear(s, h - 1)
                        /\ ends(h) # {}}
        starts == {s \in p..Len(text) : line_start(text, s) /\ words(s) # {}}
        first == CHOOSE s \in starts : \A r \in starts : s <= r
        word == CHOOSE h \in words(first) : \A r \in words(first) : h <= r
        last == CHOOSE e \in ends(word) : TRUE
    IN  IF starts = {} THEN <<>>
        ELSE <<SubSeq(text, first, last)>> \o question_sentences_from(text, last + 1)

\* a piece of the text as the segmenter reads it (lines 1283-1355); the
\* header of piece i is printed at text_spot(i)
block_of_text(block, i) ==
    LET question_matched == question_match(block)
        alt_matched == alt_match(block)
    IN
    IF block # <<>> /\ question_matched.found
    THEN [ kind |-> "hdr", number |-> question_matched.number,
           header |-> question_matched.header, spot |-> text_spot(i), question |-> question_matched.text,
           options |-> segmenter_options(block),
           subject |-> label_capture(block, Fach, {Antwort, Kommentar}, TRUE, TRUE),
           correct_answer |-> label_capture(block, Antwort, {Fach, Kommentar}, TRUE, TRUE),
           comment |-> label_capture(block, Kommentar, {Fach, Antwort}, TRUE, TRUE),
           full_text |-> scan_text(block) ]
    ELSE IF block # <<>> /\ alt_matched.found
    THEN [ kind |-> "alt", number |-> NoNumber, spot |-> [page |-> 0 - 1],
           question |-> alt_matched.text,
           options |-> segmenter_options(block),
           subject |-> <<>>, correct_answer |-> <<>>, comment |-> <<>>,
           full_text |-> scan_text(block) ]
    ELSE none_block

\* the document whose pages read `full_text`
doc_of_text(full_text) ==
    LET question_blocks == split_blocks(full_text)
    IN  pdf_doc(TRUE, TRUE,
                [i \in DOMAIN question_blocks |->
                    block_of_text(strip(question_blocks[i]), i)],
                question_sentences_from(full_text, 1), <<>>)

(***************************************************************************)
(* Written documents: blocks "k. Frage: ..." with options A to E, in the   *)
(* two marker styles, one option to a line or all on the header's line     *)
(***************************************************************************)
MaxBlocks == 2

FrageLabel ==
    <<".", " ", "F", "r", "a", "g", "e", ":", " ">>

Separator ==
    <<"\n", "_", "_", "_", "_", "_", "_", "_", "_", "_", "_", "\n">>

\* a question of two lines, the second an interrogative sentence
TextTwoLines ==
    <<"E", "i", "n", " ", "F", "a", "l", "l", ".", "\n", "W", "e", "l",
      "c", "h", "e", " ", "D", "i", "a", "g", "n", "o", "s", "e", " ", "t",
      "r", "i", "f", "f", "t", " ", "h", "i", "e", "r", " ", "z", "u", "?">>

PlainOptions ==
    [NoOptions EXCEPT !["a"] = <<"x">>, !["b"] = <<"y", " ", "z">>, !["c"] = <<"u">>,
                      !["d"] = <<"v">>, !["e"] = <<"w">>]

\* "und/oder", and "Leber (Niere)"
SlashOptions ==
    [PlainOptions EXCEPT !["b"] =
        <<"u", "n", "d", "/", "o", "d", "e", "r">>]

ParenOptions ==
    [PlainOptions EXCEPT !["b"] =
        <<"L", "e", "b", "e", "r", " ", "(", "N", "i", "e", "r", "e", ")">>]

NoTail == <<>>

FachTail ==
    <<"\n", "F", "a", "c", "h", ":", " ", "A", "n", "a", "t", "o", "m",
      "i", "e", "\n", "A", "n", "t", "w", "o", "r", "t", ":", " ", "B">>

block_template(number, question, options, layout, tail) ==
    [number |-> number, label |-> FrageLabel, question |-> question, options |-> options,
     layout |-> layout, tail |-> tail]

\* the header written without the colon, and without the space after the dot
FrageLabelNoColon == <<".", " ", "F", "r", "a", "g", "e", " ">>
FrageLabelNoSpace == <<".", "F", "r", "a", "g", "e", ":", " ">>
HeaderLabels == {FrageLabel, FrageLabelNoColon, FrageLabelNoSpace}

BlockShapes ==
    { block_template(NoNumber, question, options, layout, tail) :
        question \in {TextValid, TextTwoLines},
        options \in {PlainOptions, SlashOptions, ParenOptions},
        layout \in {"lines", "inline"},
        tail \in {NoTail, FachTail} }

\* documents of 1 to MaxBlocks blocks of one shape, numbered from 1, in each
\* way of writing the header, and a document of 5 blocks
Templates ==
    { [k \in 1..n |-> [shape EXCEPT !.number = str_of(k)]] :
        n \in 1..MaxBlocks, shape \in BlockShapes }
    \cup { [k \in 1..n |->
               [block_template(str_of(k), TextValid, PlainOptions, "lines", NoTail)
                   EXCEPT !.label = label]] :
            n \in 1..MaxBlocks, label \in HeaderLabels }
    \cup { [k \in 1..FALLBACK_BELOW |->
               block_template(str_of(k), TextTwoLines, PlainOptions, "lines", NoTail)] }

render_option(letter, style, text, layout) ==
    <<IF layout = "lines" THEN Newline ELSE " ", letter, style, " ">> \o text

render_block(tpl, style) ==
    tpl.number \o tpl.label \o tpl.question
    \o render_option("A", style, tpl.options["a"], tpl.layout)
    \o render_option("B", style, tpl.options["b"], tpl.layout)
    \o render_option("C", style, tpl.options["c"], tpl.layout)
    \o render_option("D", style, tpl.options["d"], tpl.layout)
    \o render_option("E", style, tpl.options["e"], tpl.layout)
    \o tpl.tail

RECURSIVE render_document(_, _)
render_document(tpls, style) ==
    IF Len(tpls) = 1 THEN render_block(tpls[1], style)
    ELSE render_block(tpls[1], style) \o Separator \o render_document(Tail(tpls), style)

(***************************************************************************)
(* Extraction from a written document, and parse_question_details          *)
(* applied to its questions once and once more                             *)
(***************************************************************************)
MarkerStyles == {")", "/"}

written(template, style) ==
    [ entry |-> "text", template |-> template, style |-> style,
      text |-> render_document(template, style) ]

\* extract_questions_with_coords(doc), lines 1262-1465, on the text
ExtractText(t) ==
    /\ pc[t] = "text"
    /\ questions' = [questions EXCEPT ![t] =
           extract_questions_with_coords(t, doc_of_text(request[t].text))]
    /\ pc' = [pc EXCEPT ![t] = "segmented"]
    /\ UNCHANGED <<request, images, upload_tasks, successful_uploads, handle, result,
                   processing_tasks, current_pdf_filename, storage, db>>

\* parse_question_details(q) for every question (line 305); the questions
\* as they were are kept for comparison
ParseDetails(t) ==
    /\ pc[t] = "segmented"
    /\ questions' = [questions EXCEPT ![t] =
           [i \in DOMAIN questions[t] |-> parse_question_details(questions[t][i])]]
    /\ result' = [result EXCEPT ![t] = [status |-> "parsed", before |-> questions[t]]]
    /\ pc' = [pc EXCEPT ![t] = "parsed"]
    /\ UNCHANGED <<request, images, upload_tasks, successful_uploads, handle,
                   processing_tasks, current_pdf_filename, storage, db>>

\* parse_question_details(q) called again on its own results
ParseDetailsAgain(t) ==
    /\ pc[t] = "parsed"
    /\ questions' = [questions EXCEPT ![t] =
           [i \in DOMAIN questions[t] |-> parse_question_details(questions[t][i])]]
    /\ result' = [result EXCEPT ![t] =
           [status |-> "reparsed", before |-> result[t].before, once |-> questions[t]]]
    /\ pc' = [pc EXCEPT ![t] = "reparsed"]
    /\ UNCHANGED <<request, images, upload_tasks, successful_uploads, handle,
                   processing_tasks, current_pdf_filename, storage, db>>

InitText ==
    \E template \in Templates, style \in MarkerStyles :
        /\ request = [t \in {1} |-> written(template, style)]
        /\ pc = [t \in {1} |-> "text"]
        /\ questions = [t \in {1} |-> <<>>]
        /\ images = [t \in {1} |-> <<>>]
        /\ upload_tasks = [t \in {1} |-> <<>>]
        /\ successful_uploads = [t \in {1} |-> 0]
        /\ handle = [t \in {1} |-> [opened |-> 0, closed |-> 0]]
        /\ result = [t \in {1} |-> NoResult]
        /\ processing_tasks = [t \in {1} |-> NoTask]
        /\ current_pdf_filename = [stem |-> 0, ext |-> ""]
        /\ storage = {}
        /\ db = {}

NextText ==
    \/ \E t \in Tasks : ExtractText(t)
    \/ \E t \in Tasks : ParseDetails(t)
    \/ \E t \in Tasks : ParseDetailsAgain(t)

SpecText == InitText /\ [][NextText]_vars

(***************************************************************************)
(* extract_content_from_docx, paragraph by paragraph                       *)
(*                                                                         *)
(* In SpecDocx request[t].doc is the docx.Document, questions[t] and       *)
(* images[t] are the two lists of the function, and handle[t] holds its    *)
(* other locals: para_idx, current_question, current_block_text,           *)
(* document_position, list_item_counter and the number of uuid4() calls.   *)
(***************************************************************************)
NoQuestion == [none |-> TRUE]

\* re.match(r'^\s*(\d+)\.\s*Frage:?\s*(.*)', text, re.IGNORECASE)
docx_question_match(text) ==
    LET h == skip_ws(text, 1)
        d == digits_end(text, h)
        f == skip_ws(text, d + 1)
        colon == IF matches_at(text, f + Len(Frage), <<":">>, FALSE) THEN 1 ELSE 0
        from == skip_ws(text, f + Len(Frage) + colon)
        ends == {e \in from..(Len(text) + 1) : line_end(text, e)}
        to == CHOOSE e \in ends : \A r \in ends : e <= r
    IN  IF d > h /\ matches_at(text, d, <<".">>, FALSE) /\ matches_at(text, f, Frage, TRUE)
        THEN [ found |-> TRUE, number |-> SubSeq(text, h, d - 1),
               text |-> IF from > Len(text) THEN <<>> ELSE SubSeq(text, from, to - 1) ]
        ELSE [found |-> FALSE]

\* re.match(r'_{10,}$', text)
is_separator_line(text) ==
    LET body == IF text # <<>> /\ text[Len(text)] = Newline
                THEN SubSeq(text, 1, Len(text) - 1) ELSE text
    IN  Len(body) >= MIN_SEPARATOR_LENGTH /\ \A i \in DOMAIN body : body[i] = "_"

\* lines 2373-2391: the counters of the list levels and the label of this
\* paragraph (<<>>: none)
list_label_of(st, paragraph) ==
    IF paragraph.is_list_item /\ st.current_question # NoQuestion
    THEN LET level == paragraph.list_level
             kept == {l \in DOMAIN st.list_item_counter : l <= level} \cup {level}
             counter == [l \in kept |->
                            IF l = level
                            THEN (IF l \in DOMAIN st.list_item_counter
                                  THEN st.list_item_counter[l] ELSE 0) + 1
                            ELSE st.list_item_counter[l]]
         IN  [ list_item_counter |-> counter,
               list_label |-> IF counter[level] <= 5
                              THEN <<OptionLetters[counter[level]], ")">> ELSE <<>> ]
    ELSE [list_item_counter |-> st.list_item_counter, list_label |-> <<>>]

\* s with the line `text` removed from its end, when it ends with it
without_last_line(s, text) ==
    LET line == text \o <<Newline>>
    IN  IF Len(line) <= Len(s) /\ SubSeq(s, Len(s) - Len(line) + 1, Len(s)) = line
        THEN SubSeq(s, 1, Len(s) - Len(line)) ELSE s

\* current_question["full_text"] = ...; parse_question_details(current_question);
\* questions.append(current_question)
save_question(st, full_text) ==
    [st EXCEPT !.questions =
        Append(@, parse_question_details(
                      [st.current_question EXCEPT !.full_text = scan_text(full_text)]))]

\* Faulty variant: the position is not advanced after an image
add_image_without_advance(st, image_map, embed_id) ==
    [st EXCEPT !.images =
        Append(@, [ rel_id |-> embed_id,
                    image_ext |-> image_map[embed_id].image_ext,
                    size |-> image_map[embed_id].size,
                    document_position |-> st.document_position,
                    associated_question_number |->
                        IF st.current_question # NoQuestion
                        THEN st.current_question.question_number ELSE NoNumber,
                    question_id |-> NoId,
                    image_key |-> NoKey ])]

\* lines 2476-2482 and 2494-2499: the image is appended with the current
\* position and the number of the current question, and the position advances
add_image(st, image_map, embed_id) ==
    [st EXCEPT !.images =
        Append(@, [ rel_id |-> embed_id,
                    image_ext |-> image_map[embed_id].image_ext,
                    size |-> image_map[embed_id].size,
                    document_position |-> st.document_position,
                    associated_question_number |->
                        IF st.current_question # NoQuestion
                        THEN st.current_question.question_number ELSE NoNumber,
                    question_id |-> NoId,
                    image_key |-> NoKey ]),
              !.document_position = @ + 1]

\* lines 2468-2482: the drawings that are children of the paragraph's runs
RECURSIVE run_scan(_, _, _, _)
run_scan(st, image_map, blips, k) ==
    IF k > Len(blips) THEN st
    ELSE IF blips[k].in_drawing_lst /\ blips[k].embed_id \in DOMAIN image_map
         THEN run_scan(add_image(st, image_map, blips[k].embed_id), image_map, blips, k + 1)
         ELSE run_scan(st, image_map, blips, k + 1)

\* lines 2484-2499: every drawing below the paragraph's runs
RECURSIVE r_lst_scan(_, _, _, _)
r_lst_scan(st, image_map, blips, k) ==
    IF k > Len(blips) THEN st
    ELSE LET embed_id == blips[k].embed_id
             already_added ==
                 \E i \in DOMAIN st.images :
                     /\ st.images[i].rel_id = embed_id
                     /\ st.images[i].document_position = st.document_position
         IN  IF embed_id \in DOMAIN image_map /\ ~already_added
             THEN r_lst_scan(add_image(st, image_map, embed_id), image_map, blips, k + 1)
             ELSE r_lst_scan(st, image_map, blips, k + 1)

\* one iteration of the loop over doc.paragraphs, lines 2367-2499
walk_paragraph(st, image_map, paragraph) ==
    LET text == strip(paragraph.text)
        listed == list_label_of(st, paragraph)
        header_match == docx_question_match(text)
        counted == [st EXCEPT !.list_item_counter =
                       IF header_match.found THEN <<>> ELSE listed.list_item_counter]
        appended == [counted EXCEPT !.current_block_text =
                        IF listed.list_label # <<>> /\ st.current_question # NoQuestion
                        THEN @ \o listed.list_label \o <<" ">> \o text \o <<Newline>>
                        ELSE @ \o text \o <<Newline>>]
        temp_block_text == strip(without_last_line(appended.current_block_text, text))
        saved == IF st.current_question # NoQuestion /\ temp_block_text # <<>>
                 THEN save_question(appended, temp_block_text) ELSE appended
        started ==
            [saved EXCEPT
                !.current_question =
                    [ id |-> <<"uuid", st.uuids + 1>>,
                      question_number |-> header_match.number,
                      question |-> strip(header_match.text),
                      document_position |-> st.document_position,
                      full_text |-> found_in_text(NoOptions, <<>>, <<>>, <<>>),
                      options |-> NoOptions,
                      subject |-> <<>>, correct_answer |-> <<>>, comment |-> <<>>,
                      image_key |-> NoKey ],
                !.uuids = @ + 1,
                !.current_block_text = text \o <<Newline>>,
                !.document_position = @ + 1,
                !.list_item_counter = <<>>]
        headed == IF header_match.found THEN started ELSE appended
    IN  IF is_separator_line(text)
        THEN LET closed ==
                     IF st.current_question # NoQuestion
                     THEN save_question(counted,
                              strip(without_last_line(st.current_block_text, text)))
                     ELSE counted
             IN  [closed EXCEPT !.current_question = NoQuestion,
                                !.current_block_text = <<>>,
                                !.document_position = @ + 1,
                                !.list_item_counter = <<>>]
        ELSE r_lst_scan(run_scan(headed, image_map, paragraph.blips, 1),
                        image_map, paragraph.blips, 1)

\* lines 2501-2507: the last question
finish_walk(st) ==
    IF st.current_question # NoQuestion /\ strip(st.current_block_text) # <<>>
    THEN save_question(st, strip(st.current_block_text)) ELSE st

\* lines 159-180 of process_docx for the two lists of the walk
MapImagesDocx(t) ==
    /\ pc[t] = "walked"
    /\ LET front == process_docx_front(questions[t], images[t])
       IN  /\ questions' = [questions EXCEPT ![t] = front.questions]
           /\ images' = [images EXCEPT ![t] = front.images]
           /\ upload_tasks' = [upload_tasks EXCEPT ![t] = front.upload_tasks]
    /\ pc' = [pc EXCEPT ![t] = "mapped"]
    /\ UNCHANGED <<request, successful_uploads, handle, result, processing_tasks,
                   current_pdf_filename, storage, db>>

walk_state(t) ==
    [ questions |-> questions[t], images |-> images[t],
      current_question |-> handle[t].current_question,
      current_block_text |-> handle[t].current_block_text,
      document_position |-> handle[t].document_position,
      list_item_counter |-> handle[t].list_item_counter,
      uuids |-> handle[t].uuids ]

walk_locals(st, para_idx) ==
    [ para_idx |-> para_idx,
      current_question |-> st.current_question,
      current_block_text |-> st.current_block_text,
      document_position |-> st.document_position,
      list_item_counter |-> st.list_item_counter,
      uuids |-> st.uuids ]

\* the body of `for para_idx, paragraph in enumerate(doc.paragraphs)`
WalkParagraph(t) ==
    /\ pc[t] = "walk"
    /\ handle[t].para_idx <= Len(request[t].doc.paragraphs)
    /\ LET st == walk_paragraph(walk_state(t), request[t].doc.image_map,
                                request[t].doc.paragraphs[handle[t].para_idx])
       IN  /\ questions' = [questions EXCEPT ![t] = st.questions]
           /\ images' = [images EXCEPT ![t] = st.images]
           /\ handle' = [handle EXCEPT ![t] = walk_locals(st, handle[t].para_idx + 1)]
    /\ UNCHANGED <<request, pc, upload_tasks, successful_uploads, result,
                   processing_tasks, current_pdf_filename, storage, db>>

\* after the loop: the last question is saved and the lists are returned
FinishWalk(t) ==
    /\ pc[t] = "walk"
    /\ handle[t].para_idx > Len(request[t].doc.paragraphs)
    /\ LET st == finish_walk(walk_state(t))
       IN  /\ questions' = [questions EXCEPT ![t] = st.questions]
           /\ handle' = [handle EXCEPT ![t] = walk_locals(st, handle[t].para_idx)]
    /\ pc' = [pc EXCEPT ![t] = "walked"]
    /\ UNCHANGED <<request, images, upload_tasks, successful_uploads, result,
                   processing_tasks, current_pdf_filename, storage, db>>

\* The paragraphs of the documents
MaxParagraphs == 3

paragraph_of(text, is_list_item, blips) ==
    [text |-> text, is_list_item |-> is_list_item, list_level |-> 0, blips |-> blips]

\* a:blip elements: their r:embed and whether their drawing is a child of
\* a run of the paragraph (inline pictures are)
blip(embed_id, in_drawing_lst) == [embed_id |-> embed_id, in_drawing_lst |-> in_drawing_lst]

Paragraphs ==
    { paragraph_of(str_of(1) \o FrageLabel \o <<"W", "o", "?">>, FALSE, <<>>),
      paragraph_of(str_of(2) \o FrageLabel \o <<"W", "o", "?">>, FALSE, <<>>),
      paragraph_of(SubSeq(Separator, 2, MIN_SEPARATOR_LENGTH + 1), FALSE, <<>>),
      paragraph_of(<<"H", "e", "r", "z">>, TRUE, <<>>),
      paragraph_of(<<>>, FALSE, <<blip("rId1", TRUE)>>),
      paragraph_of(<<>>, FALSE, <<blip("rId1", FALSE), blip("rId1", FALSE)>>),
      paragraph_of(<<>>, FALSE, <<blip("rId9", TRUE)>>) }

WalkDocs ==
    { [ kind |-> "docx",
        image_map |-> [rId1 |-> [image_ext |-> "png", size |-> 2000]],
        paragraphs |-> ps ] : ps \in SeqsUpTo(Paragraphs, 0, MaxParagraphs) }

InitDocx ==
    \E doc \in WalkDocs :
        /\ request = [t \in {1} |-> [entry |-> "docx", doc |-> doc]]
        /\ pc = [t \in {1} |-> "walk"]
        /\ questions = [t \in {1} |-> <<>>]
        /\ images = [t \in {1} |-> <<>>]
        /\ upload_tasks = [t \in {1} |-> <<>>]
        /\ successful_uploads = [t \in {1} |-> 0]
        /\ handle = [t \in {1} |->
              [ para_idx |-> 1, current_question |-> NoQuestion,
                current_block_text |-> <<>>, document_position |-> 0,
                list_item_counter |-> <<>>, uuids |-> 0 ]]
        /\ result = [t \in {1} |-> NoResult]
        /\ processing_tasks = [t \in {1} |-> NoTask]
        /\ current_pdf_filename = [stem |-> 0, ext |-> ""]
        /\ storage = {}
        /\ db = {}

NextDocx ==
    \/ \E t \in Tasks : WalkParagraph(t)
    \/ \E t \in Tasks : FinishWalk(t)
    \/ \E t \in Tasks : MapImagesDocx(t)

SpecDocx == InitDocx /\ [][NextDocx]_vars

(***************************************************************************)
(* extract_images_with_coords, page by page                                *)
(*                                                                         *)
(* In SpecImages request[t].doc is the fitz.Document: its pages with what  *)
(* page.get_images(full=True) and page.get_text("dict") return, and what   *)
(* doc.extract_image(xref) returns.  images[t] is the images list and      *)
(* handle[t] holds page_number and extracted_xrefs.  An image of the list  *)
(* is [page, y0, y1, image_ext, size, head, question_id] with head the     *)
(* leading 1000 bytes of image_bytes and size their number; the field xref *)
(* records the reference it was extracted from, which the dict of the code *)
(* does not keep.                                                          *)
(***************************************************************************)
MIN_IMAGE_BYTES_EXTRACTED == 100
ARTIFICIAL_BOX_HEIGHT == 100

\* hashlib.md5(image_bytes[:1000]).hexdigest()
md5(head) == <<"md5", head>>

\* lines 1605-1623 and 1703-1707: bbox[1] and bbox[3] of the image
bbox_of(raw_bbox, idx) ==
    IF raw_bbox.kind = "list" THEN [y0 |-> raw_bbox.y0, y1 |-> raw_bbox.y1]
    ELSE IF raw_bbox.kind = "int"
         THEN [y0 |-> raw_bbox.value, y1 |-> raw_bbox.value + ARTIFICIAL_BOX_HEIGHT]
         ELSE [y0 |-> idx * ARTIFICIAL_BOX_HEIGHT, y1 |-> (idx + 1) * ARTIFICIAL_BOX_HEIGHT]

\* lines 1594-1640 and 1690-1716: the xref is noted, the image is extracted
\* and appended unless extraction fails or the image has under 100 bytes
extract_xref(st, doc, page_number, xref, bbox) ==
    LET base_image == doc.extract_image[xref]
        noted == [st EXCEPT !.extracted_xrefs = @ \cup {xref}]
    IN  IF base_image.kind # "image" \/ base_image.size < MIN_IMAGE_BYTES_EXTRACTED
        THEN noted
        ELSE [noted EXCEPT !.images =
                 Append(@, [ page |-> page_number, y0 |-> bbox.y0, y1 |-> bbox.y1,
                             image_ext |-> base_image.ext, size |-> base_image.size,
                             head |-> base_image.head, xref |-> xref,
                             question_id |-> NoId ])]

\* lines 1590-1642: the entries of img_list from the k-th on; img_idx = k - 1
RECURSIVE method1_from(_, _, _, _, _)
method1_from(st, doc, page_number, img_list, k) ==
    IF k > Len(img_list) THEN st
    ELSE LET xref == img_list[k].xref
         IN  IF xref \in st.extracted_xrefs
             THEN method1_from(st, doc, page_number, img_list, k + 1)
             ELSE method1_from(
                      extract_xref(st, doc, page_number, xref,
                                   bbox_of(img_list[k].raw_bbox, k - 1)),
                      doc, page_number, img_list, k + 1)

\* lines 1661-1720: the blocks from the k-th on; block_idx = k - 1
RECURSIVE method2_from(_, _, _, _, _)
method2_from(st, doc, page_number, blocks, k) ==
    IF k > Len(blocks) THEN st
    ELSE LET block == blocks[k]
         IN  IF \/ block.type # 1
                \/ (block.xref = 0 /\ block.has_image_bytes)
                \/ block.xref \in st.extracted_xrefs
                \/ block.xref = 0
             THEN method2_from(st, doc, page_number, blocks, k + 1)
             ELSE method2_from(
                      extract_xref(st, doc, page_number, block.xref,
                                   bbox_of(block.bbox, k - 1)),
                      doc, page_number, blocks, k + 1)

\* Faulty variant: every image is kept
unique_images_keeping_all(imgs, k, kept) == imgs

\* lines 1722-1732: the images whose hash was not met before, in list order
RECURSIVE unique_images(_, _, _)
unique_images(imgs, k, kept) ==
    IF k > Len(imgs) THEN kept
    ELSE IF imgs[k].size > 0
            /\ md5(imgs[k].head) \notin {md5(kept[j].head) : j \in DOMAIN kept}
         THEN unique_images(imgs, k + 1, Append(kept, imgs[k]))
         ELSE unique_images(imgs, k + 1, kept)

\* one page of method 1; after the last page method 2 follows when the
\* list is still empty
Method1Page(t) ==
    /\ pc[t] = "method1"
    /\ LET doc == request[t].doc
           page_number == handle[t].page_number
           page == doc.pages[page_number + 1]
           before == [images |-> images[t], extracted_xrefs |-> handle[t].extracted_xrefs]
           st == IF page.get_images_ok
                 THEN method1_from(before, doc, page_number, page.img_list, 1)
                 ELSE before
           last == page_number + 1 = Len(doc.pages)
       IN  /\ images' = [images EXCEPT ![t] = st.images]
           /\ handle' = [handle EXCEPT ![t] =
                  [ page_number |-> IF last THEN 0 ELSE page_number + 1,
                    extracted_xrefs |-> st.extracted_xrefs ]]
           /\ pc' = [pc EXCEPT ![t] =
                  IF ~last THEN "method1"
                  ELSE IF st.images = <<>> THEN "method2" ELSE "unique"]
    /\ UNCHANGED <<request, questions, upload_tasks, successful_uploads, result,
                   processing_tasks, current_pdf_filename, storage, db>>

\* one page of method 2
Method2Page(t) ==
    /\ pc[t] = "method2"
    /\ LET doc == request[t].doc
           page_number == handle[t].page_number
           page == doc.pages[page_number + 1]
           before == [images |-> images[t], extracted_xrefs |-> handle[t].extracted_xrefs]
           st == IF page.get_text_ok
                 THEN method2_from(before, doc, page_number, page.blocks, 1)
                 ELSE before
           last == page_number + 1 = Len(doc.pages)
       IN  /\ images' = [images EXCEPT ![t] = st.images]
           /\ handle' = [handle EXCEPT ![t] =
                  [ page_number |-> IF last THEN 0 ELSE page_number + 1,
                    extracted_xrefs |-> st.extracted_xrefs ]]
           /\ pc' = [pc EXCEPT ![t] = IF last THEN "unique" ELSE "method2"]
    /\ UNCHANGED <<request, questions, upload_tasks, successful_uploads, result,
                   processing_tasks, current_pdf_filename, storage, db>>

\* lines 1722-1745: duplicates by hash are removed and the list is returned
RemoveDuplicates(t) ==
    /\ pc[t] = "unique"
    /\ LET kept == unique_images(images[t], 1, <<>>)
       IN  images' = [images EXCEPT ![t] = IF Len(kept) < Len(@) THEN kept ELSE @]
    /\ result' = [result EXCEPT ![t] = [status |-> "returned"]]
    /\ pc' = [pc EXCEPT ![t] = "done"]
    /\ UNCHANGED <<request, questions, upload_tasks, successful_uploads, handle,
                   processing_tasks, current_pdf_filename, storage, db>>

\* The documents: xrefs 1 and 2 hold pictures with the same leading bytes,
\* 3 a picture of 50 bytes, 4 nothing, 5 another picture; extract_image(6)
\* raises
MaxPages == 2

ExtractImage ==
    <<[kind |-> "image", head |-> "a", size |-> 2000, ext |-> "png"],
      [kind |-> "image", head |-> "a", size |-> 3000, ext |-> "png"],
      [kind |-> "image", head |-> "b", size |-> 50, ext |-> "png"],
      [kind |-> "empty"],
      [kind |-> "image", head |-> "c", size |-> 2000, ext |-> "jpeg"],
      [kind |-> "raises"]>>

\* img_info[3] of get_images(full=True), and the bbox of a block
int_bbox(value) == [kind |-> "int", value |-> value]
list_bbox(y0, y1) == [kind |-> "list", y0 |-> y0, y1 |-> y1]
no_bbox == [kind |-> "other"]

ImgLists ==
    { <<>>,
      <<[xref |-> 1, raw_bbox |-> int_bbox(120)], [xref |-> 2, raw_bbox |-> list_bbox(10, 90)]>>,
      <<[xref |-> 3, raw_bbox |-> int_bbox(40)], [xref |-> 4, raw_bbox |-> no_bbox],
        [xref |-> 6, raw_bbox |-> no_bbox], [xref |-> 5, raw_bbox |-> no_bbox]>> }

image_block(xref, has_image_bytes, bbox) ==
    [type |-> 1, xref |-> xref, has_image_bytes |-> has_image_bytes, bbox |-> bbox]

BlockLists ==
    { <<>>,
      <<[type |-> 0], image_block(1, FALSE, list_bbox(10, 90)),
        image_block(2, FALSE, no_bbox)>>,
      <<image_block(0, TRUE, no_bbox), image_block(0, FALSE, no_bbox),
        image_block(3, FALSE, no_bbox), image_block(5, FALSE, list_bbox(200, 300)),
        image_block(1, FALSE, list_bbox(10, 90))>> }

Pages ==
    { [get_images_ok |-> TRUE, img_list |-> l, get_text_ok |-> TRUE, blocks |-> b] :
        l \in ImgLists, b \in BlockLists }
    \cup { [get_images_ok |-> FALSE, img_list |-> <<>>, get_text_ok |-> ok, blocks |-> b] :
             ok \in BOOLEAN, b \in BlockLists \ {<<>>} }

ImageDocs ==
    { [kind |-> "pdf", extract_image |-> ExtractImage, pages |-> ps] :
        ps \in SeqsUpTo(Pages, 1, MaxPages) }

InitImages ==
    \E doc \in ImageDocs :
        /\ request = [t \in {1} |-> [entry |-> "images", doc |-> doc]]
        /\ pc = [t \in {1} |-> "method1"]
        /\ questions = [t \in {1} |-> <<>>]
        /\ images = [t \in {1} |-> <<>>]
        /\ upload_tasks = [t \in {1} |-> <<>>]
        /\ successful_uploads = [t \in {1} |-> 0]
        /\ handle = [t \in {1} |-> [page_number |-> 0, extracted_xrefs |-> {}]]
        /\ result = [t \in {1} |-> NoResult]
        /\ processing_tasks = [t \in {1} |-> NoTask]
        /\ current_pdf_filename = [stem |-> 0, ext |-> ""]
        /\ storage = {}
        /\ db = {}

NextImages ==
    \/ \E t \in Tasks : Method1Page(t)
    \/ \E t \in Tasks : Method2Page(t)
    \/ \E t \in Tasks : RemoveDuplicates(t)

SpecImages == InitImages /\ [][NextImages]_vars

(***************************************************************************)
(* ai-comments: the consume run over the open batch jobs                   *)
(*                                                                         *)
(* In SpecComments request[b] is row b of ai_commentary_batch_jobs without *)
(* its status (provider, and what the tables held when the run began), and *)
(* db holds the tables: jobs (batch -> status), the questions row of the   *)
(* one question of the batches, its ai_answer_comments row, the owner's    *)
(* user_private_ai_quota row of the month, and the settings.               *)
(***************************************************************************)
NoRow == [none |-> TRUE]

\* get_open_batch_jobs: the statuses of the .in_ filter
OpenStatuses == {"pending", "validating", "in_progress", "finalizing", "QUEUED", "RUNNING"}

BASE_MONTHLY_FREE_LIMIT == 100

\* what a provider reports for a batch: the statuses it documents, those
\* in which the batch is still being worked on, and the one of success
ProviderStates ==
    [ openai |-> {"in_progress", "finalizing", "cancelling", "completed", "failed",
                  "cancelled"},
      gemini |-> {"JOB_STATE_QUEUED", "JOB_STATE_RUNNING", "JOB_STATE_CANCELLING",
                  "JOB_STATE_SUCCEEDED", "JOB_STATE_FAILED"},
      mistral |-> {"QUEUED", "RUNNING", "CANCELLATION_REQUESTED", "SUCCESS", "FAILED",
                   "CANCELLED"} ]

NotFinal ==
    {"validating", "in_progress", "finalizing", "cancelling",
     "JOB_STATE_QUEUED", "JOB_STATE_PENDING", "JOB_STATE_RUNNING", "JOB_STATE_CANCELLING",
     "QUEUED", "RUNNING", "CANCELLATION_REQUESTED"}

\* the branches of the three functions
StillRunning ==
    [ openai |-> {"validating", "in_progress", "finalizing"},
      gemini |-> {"JOB_STATE_PENDING", "JOB_STATE_RUNNING"},
      mistral |-> {"QUEUED", "RUNNING"} ]
Succeeded == [openai |-> "completed", gemini |-> "JOB_STATE_SUCCEEDED", mistral |-> "SUCCESS"]
StoredOnSuccess == [openai |-> "completed", gemini |-> "completed", mistral |-> "SUCCESS"]
StoredWithoutOutput == [openai |-> "failed", mistral |-> "FAILED"]
QuotaChecked ==
    [ openai |-> {"failed", "expired", "cancelled"},
      gemini |-> {"JOB_STATE_FAILED", "JOB_STATE_CANCELLED"},
      mistral |-> {"FAILED", "CANCELLED"} ]
ModelOf == [openai |-> "chatgpt", gemini |-> "gemini", mistral |-> "mistral"]

\* check_all_models_completed(question_id, models_enabled)
check_all_models_completed(d) ==
    /\ d.comments # NoRow
    /\ d.comments.processing_status # "failed"
    /\ \A m \in d.models_enabled : d.comments.general_comment[m] = "ok"

\* SupabaseClient.update_question_status, lines 646-751
update_question_status(d, status, set_processed_at) ==
    LET first_time_completed ==
            /\ status = "completed"
            /\ \/ d.question.ai_commentary_status # "completed"
               \/ ~d.question.ai_commentary_processed_at
        consumed ==
            IF d.quota = NoRow THEN [free_used_count |-> 1, paid_credits_remaining |-> 0]
            ELSE IF d.quota.free_used_count < BASE_MONTHLY_FREE_LIMIT
                 THEN [d.quota EXCEPT !.free_used_count = @ + 1]
                 ELSE IF d.quota.paid_credits_remaining > 0
                      THEN [d.quota EXCEPT !.paid_credits_remaining = @ - 1]
                      ELSE d.quota
    IN  [d EXCEPT
            !.question.ai_commentary_status = status,
            !.question.ai_commentary_processed_at =
                IF set_processed_at /\ status = "completed" THEN TRUE ELSE @,
            !.comments = IF status = "completed" /\ @ # NoRow
                         THEN [@ EXCEPT !.processing_status = "completed"] ELSE @,
            !.quota = IF first_time_completed /\ d.question.visibility = "private"
                         /\ d.question.user_id # None
                      THEN consumed ELSE @]

\* SupabaseClient.upsert_comments(question_id, {model: payload}): the general
\* comment of the model, "ok" or "fehler" (it contains "Fehler:")
upsert_comments(d, model, general_comment) ==
    LET row == IF d.comments = NoRow
               THEN [ general_comment |->
                          [m \in {"chatgpt", "gemini", "mistral"} |-> "none"],
                      processing_status |-> "completed" ]
               ELSE d.comments
    IN  [d EXCEPT !.comments =
            [row EXCEPT !.general_comment[model] = general_comment,
                        !.processing_status =
                            IF general_comment = "fehler" THEN "failed" ELSE @]]

\* the loop body over results.items(), lines 132-146, 225-239 and 346-366
consume_result(d, model, payload) ==
    IF payload = "absent" THEN d
    ELSE IF payload = "error" THEN update_question_status(d, "failed", FALSE)
    ELSE LET upserted == upsert_comments(d, model, payload)
         IN  IF check_all_models_completed(upserted)
             THEN update_question_status(upserted, "completed", TRUE)
             ELSE upserted

\* the loop body over the open jobs, lines 71-158, 185-251 and 282-389:
\* the outcome is what the provider and the result file give for batch b
poll_job(d, b, provider, outcome) ==
    LET disabled == IF outcome.quota_error THEN [d EXCEPT !.feature_enabled = FALSE] ELSE d
    IN  IF outcome.kind = "raises" THEN disabled
        ELSE IF outcome.status \in StillRunning[provider] THEN d
        ELSE IF outcome.status # Succeeded[provider]
             THEN [(IF outcome.status \in QuotaChecked[provider] THEN disabled ELSE d)
                      EXCEPT !.jobs[b] = outcome.status]
        ELSE IF ~outcome.has_output
             THEN [d EXCEPT !.jobs[b] = StoredWithoutOutput[provider]]
        ELSE IF ~outcome.loads THEN disabled
        ELSE [consume_result(d, ModelOf[provider], outcome.payload)
                 EXCEPT !.jobs[b] = StoredOnSuccess[provider]]

RECURSIVE poll_jobs(_, _, _, _)
poll_jobs(d, provider, outcomes, b) ==
    IF b > Len(d.jobs) THEN d
    ELSE IF b \in DOMAIN outcomes
         THEN poll_jobs(poll_job(d, b, provider, outcomes[b]), provider, outcomes, b + 1)
         ELSE poll_jobs(d, provider, outcomes, b + 1)

\* what the provider and the result file of a batch can give: retrieving
\* raises; a state other than success, with or without a quota error in
\* its error details; success without an output file, with one that does
\* not load (OpenAI; the Gemini results are inline), or with a payload for
\* the question
Outcomes(provider) ==
    { [kind |-> "raises", quota_error |-> q] : q \in BOOLEAN }
    \cup { [kind |-> "state", status |-> s, quota_error |-> FALSE, has_output |-> FALSE,
            loads |-> FALSE, payload |-> "absent"] :
             s \in ProviderStates[provider] \ {Succeeded[provider]} }
    \cup { [kind |-> "state", status |-> s, quota_error |-> TRUE, has_output |-> FALSE,
            loads |-> FALSE, payload |-> "absent"] : s \in QuotaChecked[provider] }
    \cup { [kind |-> "state", status |-> Succeeded[provider], quota_error |-> FALSE,
            has_output |-> FALSE, loads |-> FALSE, payload |-> "absent"] :
             p \in {provider} \ {"gemini"} }
    \cup { [kind |-> "state", status |-> Succeeded[provider], quota_error |-> q,
            has_output |-> TRUE, loads |-> FALSE, payload |-> "absent"] :
             p \in {provider} \cap {"openai"}, q \in BOOLEAN }
    \cup { [kind |-> "state", status |-> Succeeded[provider], quota_error |-> FALSE,
            has_output |-> TRUE, loads |-> TRUE, payload |-> p] :
             p \in {"absent", "error", "ok", "fehler"} }

\* one run of process_<provider>_batches with at least one open job
process_batches(provider) ==
    LET jobs == {b \in Tasks : /\ request[b].provider = provider
                               /\ db.jobs[b] \in OpenStatuses}
    IN  /\ \A b \in Tasks : request[b].entry = "batch"
        /\ jobs # {}
        /\ \E outcomes \in [jobs -> Outcomes(provider)] :
              db' = poll_jobs(db, provider, outcomes, 1)
        /\ UNCHANGED <<request, pc, questions, images, upload_tasks, successful_uploads,
                       handle, result, processing_tasks, current_pdf_filename, storage>>

ProcessOpenAIBatches == process_batches("openai")
ProcessGeminiBatches == process_batches("gemini")
ProcessMistralBatches == process_batches("mistral")

MaxJobs == 3

Providers == <<"openai", "gemini", "mistral">>

\* the provider of every job: the same question submitted to each provider
\* in turn, or claimed again while processing and submitted to OpenAI again
JobProviders ==
    { [b \in 1..MaxJobs |-> ((b - 1) % 3) + 1], [b \in 1..MaxJobs |-> 1] }

QuotaRows ==
    { NoRow, [free_used_count |-> BASE_MONTHLY_FREE_LIMIT - 1, paid_credits_remaining |-> 1] }

InitComments ==
    \E ps \in JobProviders, quota \in QuotaRows,
       enabled \in {{"chatgpt"}, {"chatgpt", "gemini", "mistral"}},
       visibility \in {"private", "university"} :
        /\ visibility = "university" => quota = NoRow
        /\ request = [b \in 1..MaxJobs |->
                         [ entry |-> "batch", provider |-> Providers[ps[b]],
                           quota_before |-> quota ]]
        /\ pc = [b \in 1..MaxJobs |-> "submitted"]
        /\ questions = [b \in 1..MaxJobs |-> <<>>]
        /\ images = [b \in 1..MaxJobs |-> <<>>]
        /\ upload_tasks = [b \in 1..MaxJobs |-> <<>>]
        /\ successful_uploads = [b \in 1..MaxJobs |-> 0]
        /\ handle = [b \in 1..MaxJobs |-> [opened |-> 0, closed |-> 0]]
        /\ result = [b \in 1..MaxJobs |-> NoResult]
        /\ processing_tasks = [b \in 1..MaxJobs |-> NoTask]
        /\ current_pdf_filename = [stem |-> 0, ext |-> ""]
        /\ storage = {}
        /\ db = [ jobs |-> [b \in 1..MaxJobs |-> "pending"],
                  question |-> [ ai_commentary_status |-> "processing",
                                 ai_commentary_processed_at |-> FALSE,
                                 visibility |-> visibility, user_id |-> "u1" ],
                  comments |-> NoRow,
                  quota |-> quota,
                  models_enabled |-> enabled,
                  feature_enabled |-> TRUE ]

NextComments ==
    \/ ProcessOpenAIBatches
    \/ ProcessGeminiBatches
    \/ ProcessMistralBatches

SpecComments == InitComments /\ [][NextComments]_vars

(***************************************************************************)
(* subject worker: retry_with_backoff                                      *)
(*                                                                         *)
(* In SpecRetry request[t] is one call retry_with_backoff(fn, retries,     *)
(* delay), handle[t] the arguments of the innermost recursive call with    *)
(* what happened so far (the outcome of every call of fn and the           *)
(* milliseconds of every sleep), and result[t] what the outermost call     *)
(* returned or raised.  The recursion returns the inner call's result      *)
(* unchanged, so the frames are not kept.                                  *)
(***************************************************************************)
RETRY_DELAY == 1000

\* Faulty variant: the delay of the next attempt is not doubled
backoff_without_doubling(h) ==
    [h EXCEPT !.waits = Append(@, h.delay), !.retries = @ - 1]

\* lines 78-79: asyncio.sleep(delay / 1000.0), then the recursive call
backoff(h) ==
    [h EXCEPT !.waits = Append(@, h.delay), !.retries = @ - 1, !.delay = @ * 2]

\* lines 67-77: fn is awaited (or run in the executor); a return value is
\* returned, an Exception is re-raised when no retry is left and another
\* BaseException is not caught
CallFn(t) ==
    /\ request[t].entry = "retry"
    /\ pc[t] = "call"
    /\ \E outcome \in request[t].outcomes :
          /\ handle' = [handle EXCEPT ![t].outcomes = Append(@, outcome)]
          /\ IF outcome.kind = "returns"
             THEN /\ pc' = [pc EXCEPT ![t] = "returned"]
                  /\ result' = [result EXCEPT ![t] = [returned |-> outcome.value]]
             ELSE IF outcome.kind = "base_exception" \/ handle[t].retries <= 0
             THEN /\ pc' = [pc EXCEPT ![t] = "raised"]
                  /\ result' = [result EXCEPT ![t] = [raised |-> outcome.value]]
             ELSE /\ pc' = [pc EXCEPT ![t] = "sleep"]
                  /\ UNCHANGED result
    /\ UNCHANGED <<request, questions, images, upload_tasks, successful_uploads,
                   processing_tasks, current_pdf_filename, storage, db>>

Sleep(t) ==
    /\ request[t].entry = "retry"
    /\ pc[t] = "sleep"
    /\ handle' = [handle EXCEPT ![t] = backoff(@)]
    /\ pc' = [pc EXCEPT ![t] = "call"]
    /\ UNCHANGED <<request, questions, images, upload_tasks, successful_uploads, result,
                   processing_tasks, current_pdf_filename, storage, db>>

MaxRetries == 3

\* what fn can do in one call: call_openai (run in the executor) returns a
\* subject or raises, update_question (a coroutine function) returns None
\* or raises; the task can be cancelled while it awaits fn
FnOutcomes ==
    [ call_openai |->
          { [kind |-> "returns", value |-> "Anatomie"],
            [kind |-> "exception", value |-> "RateLimitError"],
            [kind |-> "exception", value |-> "APITimeoutError"],
            [kind |-> "base_exception", value |-> "CancelledError"] },
      update_question |->
          { [kind |-> "returns", value |-> "None"],
            [kind |-> "exception", value |-> "APIError"],
            [kind |-> "base_exception", value |-> "CancelledError"] } ]

InitRetry ==
    \E fn \in {"call_openai", "update_question"}, retries \in 0..MaxRetries,
       delay \in {RETRY_DELAY, 1} :
        /\ request = [t \in {1} |->
                         [ entry |-> "retry", fn |-> fn, outcomes |-> FnOutcomes[fn],
                           retries |-> retries, delay |-> delay ]]
        /\ pc = [t \in {1} |-> "call"]
        /\ questions = [t \in {1} |-> <<>>]
        /\ images = [t \in {1} |-> <<>>]
        /\ upload_tasks = [t \in {1} |-> <<>>]
        /\ successful_uploads = [t \in {1} |-> 0]
        /\ handle = [t \in {1} |->
                        [retries |-> retries, delay |-> delay, outcomes |-> <<>>,
                         waits |-> <<>>]]
        /\ result = [t \in {1} |-> NoResult]
        /\ processing_tasks = [t \in {1} |-> NoTask]
        /\ current_pdf_filename = [stem |-> 0, ext |-> ""]
        /\ storage = {}
        /\ db = <<>>

NextRetry ==
    \E t \in Tasks :
        \/ CallFn(t)
        \/ Sleep(t)

\* fn returns or raises, and the sleep ends
SpecRetry == InitRetry /\ [][NextRetry]_vars /\ WF_vars(NextRetry)

(***************************************************************************)
(* ai-comments: the submit run                                             *)
(*                                                                         *)
(* In SpecSubmit a task is one run of ai_commentary_submit.main, started   *)
(* by POST /submit as a background task; runs follow each other and        *)
(* overlap.  request[t] holds the settings the run fetched, handle[t] its  *)
(* locals (candidate_questions, ids_to_process, claimed_questions), and db *)
(* the tables: questions (id -> row), the premium owners of profiles, the  *)
(* question ids listed in a row of ai_commentary_batch_jobs, and the        *)
(* general comment of the instant model per question.  processed_at is     *)
(* "null", "old" (before the stuck threshold of 30 minutes) or "recent".   *)
(***************************************************************************)
RECURSIVE select_seq(_, _)
\* the ids of s whose k-th test holds, in the order of s
select_seq(s, keep) ==
    IF s = <<>> THEN <<>>
    ELSE (IF keep[1] THEN <<s[1]>> ELSE <<>>) \o select_seq(Tail(s), Tail(keep))

\* the rows a select with .limit(limit) and no order can return for the
\* ids that match: limit of them (all, when fewer match) in any order
selections(matching, limit) ==
    LET n == IF Cardinality(matching) < limit THEN Cardinality(matching) ELSE limit
    IN  { s \in [1..n -> matching] : \A i, j \in 1..n : i # j => s[i] # s[j] }

\* _select_questions(status, processed_before_iso, limit): the ids that match
matching_questions(rows, status, stuck_only) ==
    { q \in DOMAIN rows : /\ rows[q].ai_commentary_status = status
                          /\ stuck_only => rows[q].ai_commentary_processed_at = "old" }

visibility_of(row) == IF row.visibility = None THEN "private" ELSE row.visibility

\* Faulty variant: private questions are not gated by the owner's premium status
find_candidates_without_gate(rows, premium, batch_size, candidate_questions) ==
    LET uni == [k \in 1..Len(candidate_questions) |->
                   visibility_of(rows[candidate_questions[k]]) = "university"]
        private == [k \in 1..Len(candidate_questions) |-> ~uni[k]]
        prioritised_ids == select_seq(candidate_questions, uni)
                           \o select_seq(candidate_questions, private)
    IN  SubSeq(prioritised_ids, 1,
               IF Len(prioritised_ids) < batch_size THEN Len(prioritised_ids) ELSE batch_size)

\* find_candidates from the candidate rows on: the split by visibility, the
\* premium gate of the private ids and the slice to batch_size
find_candidates(rows, premium, batch_size, candidate_questions) ==
    LET uni == [k \in 1..Len(candidate_questions) |->
                   visibility_of(rows[candidate_questions[k]]) = "university"]
        eligible_private ==
            [k \in 1..Len(candidate_questions) |->
                /\ ~uni[k]
                /\ rows[candidate_questions[k]].user_id # None
                /\ rows[candidate_questions[k]].user_id \in premium]
        prioritised_ids == select_seq(candidate_questions, uni)
                           \o select_seq(candidate_questions, eligible_private)
    IN  SubSeq(prioritised_ids, 1,
               IF Len(prioritised_ids) < batch_size THEN Len(prioritised_ids) ELSE batch_size)

IdleRun == [candidate_questions |-> <<>>, ids_to_process |-> <<>>, claimed_questions |-> {}]

\* main up to the call of claim_questions: the two selects of
\* find_candidates, its gate, and the return when nothing is to process
FindCandidates(t) ==
    /\ request[t].entry = "submit"
    /\ pc[t] = "idle"
    /\ \E pending_candidates \in
            selections(matching_questions(db.questions, "pending", FALSE),
                       request[t].batch_size) :
         LET remaining_capacity == request[t].batch_size - Len(pending_candidates)
         IN  \E stuck_candidates \in
                   selections(matching_questions(db.questions, "processing", TRUE),
                              remaining_capacity) :
               LET candidate_questions == pending_candidates \o stuck_candidates
                   ids_to_process ==
                       find_candidates(db.questions, db.premium, request[t].batch_size,
                                       candidate_questions)
               IN  /\ handle' = [handle EXCEPT ![t] =
                                    [ candidate_questions |-> candidate_questions,
                                      ids_to_process |-> ids_to_process,
                                      claimed_questions |-> {} ]]
                   /\ pc' = [pc EXCEPT ![t] =
                                IF ids_to_process = <<>> THEN "returned" ELSE "found"]
    /\ UNCHANGED <<request, questions, images, upload_tasks, successful_uploads, result,
                   processing_tasks, current_pdf_filename, storage, db>>

ids_of(s) == {s[k] : k \in DOMAIN s}

\* the update of claim_questions
claim_questions(rows, ids_to_process) ==
    [q \in DOMAIN rows |->
        IF /\ q \in ids_of(ids_to_process)
           /\ rows[q].ai_commentary_status \in {"pending", "processing"}
        THEN [rows[q] EXCEPT !.ai_commentary_status = "processing"]
        ELSE rows[q]]

\* claim_questions: the update and the select of the rows in processing
ClaimQuestions(t) ==
    /\ request[t].entry = "submit"
    /\ pc[t] = "found"
    /\ LET rows == claim_questions(db.questions, handle[t].ids_to_process)
           claimed_questions ==
               { q \in ids_of(handle[t].ids_to_process) :
                    rows[q].ai_commentary_status = "processing" }
       IN  /\ db' = [db EXCEPT !.questions = rows]
           /\ handle' = [handle EXCEPT ![t].claimed_questions = claimed_questions]
           /\ pc' = [pc EXCEPT ![t] =
                        IF claimed_questions = {} THEN "returned" ELSE "claimed"]
    /\ UNCHANGED <<request, questions, images, upload_tasks, successful_uploads, result,
                   processing_tasks, current_pdf_filename, storage>>

\* the rest of main for the enabled model: the batch submission creates a
\* job row or raises; the instant model returns a comment or raises for
\* each question, the comments are upserted and a question whose models
\* all completed is marked completed
SubmitModels(t) ==
    /\ request[t].entry = "submit"
    /\ pc[t] = "claimed"
    /\ IF request[t].models_enabled = "chatgpt"
       THEN \E submitted \in BOOLEAN :
               db' = [db EXCEPT !.jobs =
                         IF submitted
                         THEN @ \cup handle[t].claimed_questions
                         ELSE @]
       ELSE \E comment \in [handle[t].claimed_questions -> {"ok", "fehler"}] :
               db' = [db EXCEPT
                         !.comments = [q \in DOMAIN @ |->
                                          IF q \in handle[t].claimed_questions
                                          THEN comment[q] ELSE @[q]],
                         !.questions = [q \in DOMAIN @ |->
                                           IF q \in handle[t].claimed_questions
                                              /\ comment[q] = "ok"
                                           THEN [@[q] EXCEPT
                                                    !.ai_commentary_status = "completed",
                                                    !.ai_commentary_processed_at = "recent"]
                                           ELSE @[q]]]
    /\ pc' = [pc EXCEPT ![t] = "returned"]
    /\ UNCHANGED <<request, questions, images, upload_tasks, successful_uploads, handle,
                   result, processing_tasks, current_pdf_filename, storage>>

\* POST /submit: the next run of main is started as a background task
TriggerSubmit(t) ==
    /\ request[t].entry = "submit"
    /\ pc[t] = "returned"
    /\ pc' = [pc EXCEPT ![t] = "idle"]
    /\ handle' = [handle EXCEPT ![t] = IdleRun]
    /\ UNCHANGED <<request, questions, images, upload_tasks, successful_uploads, result,
                   processing_tasks, current_pdf_filename, storage, db>>

\* the consume run for a question of a created batch job: the provider's
\* result marks it completed or failed (update_question_status)
ConsumeResult(q) ==
    /\ \A t \in Tasks : request[t].entry = "submit"
    /\ q \in DOMAIN db.questions
    /\ db.questions[q].ai_commentary_status = "processing"
    /\ q \in db.jobs
    /\ \E status \in {"completed", "failed"} :
          db' = [db EXCEPT
                    !.questions[q].ai_commentary_status = status,
                    !.questions[q].ai_commentary_processed_at =
                        IF status = "completed" THEN "recent" ELSE @]
    /\ UNCHANGED <<request, pc, questions, images, upload_tasks, successful_uploads, handle,
                   result, processing_tasks, current_pdf_filename, storage>>

\* thirty minutes pass: every ai_commentary_processed_at is before the
\* stuck threshold of the runs that follow
ThirtyMinutesPass ==
    /\ \A t \in Tasks : request[t].entry = "submit"
    /\ \E q \in DOMAIN db.questions : db.questions[q].ai_commentary_processed_at = "recent"
    /\ db' = [db EXCEPT !.questions =
                 [q \in DOMAIN @ |->
                     IF @[q].ai_commentary_processed_at = "recent"
                     THEN [@[q] EXCEPT !.ai_commentary_processed_at = "old"] ELSE @[q]]]
    /\ UNCHANGED <<request, pc, questions, images, upload_tasks, successful_uploads, handle,
                   result, processing_tasks, current_pdf_filename, storage>>

MaxRows == 2

\* two runs of main, so that they can overlap
Runs == {1, 2}

\* rows of questions: new and pending (of the university, of a premium
\* owner, of an owner who is not premium, without owner, without
\* visibility), and one left in processing by an earlier run
question_row(status, processed_at, visibility, user_id) ==
    [ ai_commentary_status |-> status, ai_commentary_processed_at |-> processed_at,
      visibility |-> visibility, user_id |-> user_id ]

RowShapes ==
    << question_row("pending", "null", "university", "u2"),
       question_row("pending", "null", "private", "u1"),
       question_row("pending", "null", "private", "u2"),
       question_row("pending", "null", "private", None),
       question_row("pending", "null", None, "u2"),
       question_row("processing", "old", "private", "u1") >>

\* the tables: rows in non-decreasing order of RowShapes (the selects
\* return them in any order)
QuestionTables ==
    { [q \in 1..MaxRows |-> RowShapes[shape[q]]] :
        shape \in { s \in [1..MaxRows -> 1..Len(RowShapes)] :
                       \A q \in 1..(MaxRows - 1) : s[q] <= s[q + 1] } }

InitSubmit ==
    \E rows \in QuestionTables, batch_size \in {1, 2},
       models_enabled \in {"chatgpt", "perplexity"} :
        /\ request = [t \in Runs |->
                         [ entry |-> "submit", batch_size |-> batch_size,
                           models_enabled |-> models_enabled ]]
        /\ pc = [t \in Runs |-> "idle"]
        /\ questions = [t \in Runs |-> <<>>]
        /\ images = [t \in Runs |-> <<>>]
        /\ upload_tasks = [t \in Runs |-> <<>>]
        /\ successful_uploads = [t \in Runs |-> 0]
        /\ handle = [t \in Runs |-> IdleRun]
        /\ result = [t \in Runs |-> NoResult]
        /\ processing_tasks = [t \in Runs |-> NoTask]
        /\ current_pdf_filename = [stem |-> 0, ext |-> ""]
        /\ storage = {}
        /\ db = [ questions |-> rows, premium |-> {"u1"}, jobs |-> {},
                  comments |-> [q \in 1..MaxRows |-> "none"] ]

RunStep ==
    \E t \in Tasks :
        \/ FindCandidates(t)
        \/ ClaimQuestions(t)
        \/ SubmitModels(t)
        \/ TriggerSubmit(t)

ConsumeStep == \E q \in 1..MaxRows : ConsumeResult(q)

NextSubmit ==
    \/ RunStep
    \/ ConsumeStep
    \/ ThirtyMinutesPass

\* every started run goes on, the triggers keep coming, the results of the
\* created jobs are consumed, and time passes
SpecSubmit ==
    /\ InitSubmit
    /\ [][NextSubmit]_vars
    /\ \A t \in Runs : WF_vars(FindCandidates(t) \/ ClaimQuestions(t)
                                      \/ SubmitModels(t) \/ TriggerSubmit(t))
    /\ WF_vars(ConsumeStep)
    /\ WF_vars(ThirtyMinutesPass)

(***************************************************************************)
(* subject worker: process_job_by_id                                       *)
(*                                                                         *)
(* In SpecJobs a task is one invocation of process_job_by_id, started by   *)
(* POST /process-job/{job_id} or by process_all_pending_jobs for a job of  *)
(* its list; the invocations are coroutines of one event loop and          *)
(* interleave at every await.  request[t] holds the trigger and job_id,    *)
(* handle[t] the local job and the processing function the invocation      *)
(* entered, db the table subject_jobs (id -> status and type).             *)
(***************************************************************************)
NoJob == [id |-> 0]

\* fetch_pending_subject_jobs and the search for job_id in its result
FetchJob(t) ==
    /\ request[t].entry = "job"
    /\ pc[t] = "start"
    /\ IF db.subject_jobs[request[t].job_id].status = "pending"
       THEN /\ handle' = [handle EXCEPT ![t].job =
                             [ id |-> request[t].job_id,
                               type |-> db.subject_jobs[request[t].job_id].type ]]
            /\ pc' = [pc EXCEPT ![t] = "fetched"]
       ELSE /\ pc' = [pc EXCEPT ![t] = "returned"]
            /\ UNCHANGED handle
    /\ UNCHANGED <<request, questions, images, upload_tasks, successful_uploads, result,
                   processing_tasks, current_pdf_filename, storage, db>>

\* SupabaseClient.update_subject_job_status(job_id, status)
update_subject_job_status(rows, job_id, status) ==
    [rows EXCEPT ![job_id].status = status]

\* update_subject_job_status(job_id, "processing") and the choice of the
\* processing function by the job type
MarkProcessing(t) ==
    /\ request[t].entry = "job"
    /\ pc[t] = "fetched"
    /\ \/ /\ handle[t].job.type \in {"assign", "reassign"}
          /\ db' = [db EXCEPT !.subject_jobs =
                       update_subject_job_status(@, handle[t].job.id, "processing")]
          /\ handle' = [handle EXCEPT ![t].entered =
                           IF handle[t].job.type = "assign" THEN "process_assign_job"
                           ELSE "process_reassign_job"]
          /\ pc' = [pc EXCEPT ![t] = "processing"]
       \/ /\ handle[t].job.type \notin {"assign", "reassign"}
          /\ db' = [db EXCEPT !.subject_jobs =
                       update_subject_job_status(@, handle[t].job.id, "failed")]
          /\ pc' = [pc EXCEPT ![t] = "returned"]
          /\ UNCHANGED handle
       \/ \* the update raises: the handler marks the job failed
          /\ db' = [db EXCEPT !.subject_jobs =
                       update_subject_job_status(@, handle[t].job.id, "failed")]
          /\ pc' = [pc EXCEPT ![t] = "returned"]
          /\ UNCHANGED handle
    /\ UNCHANGED <<request, questions, images, upload_tasks, successful_uploads, result,
                   processing_tasks, current_pdf_filename, storage>>

\* process_assign_job / process_reassign_job end: the job is completed, or
\* an exception reaches process_job_by_id, which marks it failed
ProcessJob(t) ==
    /\ request[t].entry = "job"
    /\ pc[t] = "processing"
    /\ \E status \in {"completed", "failed"} :
          db' = [db EXCEPT !.subject_jobs =
                    update_subject_job_status(@, handle[t].job.id, status)]
    /\ pc' = [pc EXCEPT ![t] = "returned"]
    /\ UNCHANGED <<request, questions, images, upload_tasks, successful_uploads, handle,
                   result, processing_tasks, current_pdf_filename, storage>>

MaxSubjectJobs == 2

\* two invocations, so that they can overlap
Invocations == {1, 2}

InitJobs ==
    \E rows \in [1..MaxSubjectJobs ->
                    [ status : {"pending", "processing", "completed"},
                      type : {"assign", "reassign", "unknown"} ]],
       job_ids \in [Invocations -> 1..MaxSubjectJobs],
       triggers \in [Invocations -> {"process-job", "polling_loop"}] :
        /\ request = [t \in Invocations |->
                         [entry |-> "job", trigger |-> triggers[t], job_id |-> job_ids[t]]]
        /\ pc = [t \in Invocations |-> "start"]
        /\ questions = [t \in Invocations |-> <<>>]
        /\ images = [t \in Invocations |-> <<>>]
        /\ upload_tasks = [t \in Invocations |-> <<>>]
        /\ successful_uploads = [t \in Invocations |-> 0]
        /\ handle = [t \in Invocations |-> [job |-> NoJob, entered |-> None]]
        /\ result = [t \in Invocations |-> NoResult]
        /\ processing_tasks = [t \in Invocations |-> NoTask]
        /\ current_pdf_filename = [stem |-> 0, ext |-> ""]
        /\ storage = {}
        /\ db = [subject_jobs |-> rows]

NextJobs ==
    \E t \in Tasks :
        \/ FetchJob(t)
        \/ MarkProcessing(t)
        \/ ProcessJob(t)

SpecJobs == InitJobs /\ [][NextJobs]_vars



(***************************************************************************)
(* The service under fair scheduling                                       *)
(*                                                                         *)
(* SpecLive follows two uploads from POST /upload to the end of            *)
(* process_document_in_background.  What process_document returns is drawn *)
(* from the results it can give (Spec computes them from the document,     *)
(* with the uploads of the images), or it raises.  The event loop runs     *)
(* every request handler and every queued background task.                 *)
(***************************************************************************)
Raised == [status |-> "raised"]

\* the results of process_document: a failure, no questions, a success
\* whose questions were all ignored, and a success with one or two
\* questions
ProcessingResults ==
    LET one == process_pdf_front(extract_questions_with_coords(1, SmallDoc), SmallDoc).questions
        fields == exam_fields(1, "pdf", metadata_of(upload(1, SmallDoc)))
    IN  { failed_result, no_questions_result,
          completed_result(<<>>, <<>>, 0, fields),
          completed_result(one, <<>>, 0, fields),
          completed_result(one \o one, <<>>, 0, fields) }

\* process_document_in_background, lines 1104-1207: the record written for
\* the result of process_document, and the one of the outer except when
\* process_document raises
ProcessDocumentInBackground(t) ==
    /\ pc[t] = "queued"
    /\ \E res \in ProcessingResults \cup {Raised} :
          IF res = Raised
          THEN /\ processing_tasks' = [processing_tasks EXCEPT ![t] =
                      task_record("failed", FALSE, "Fehler bei der Verarbeitung",
                                  [error_details |-> "raised"])]
               /\ pc' = [pc EXCEPT ![t] = "done"]
               /\ UNCHANGED <<result, db>>
          ELSE RecordResult(t, res)
    /\ UNCHANGED <<request, questions, images, upload_tasks, successful_uploads, handle,
                   current_pdf_filename, storage>>

\* check_task_status, lines 1072-1092: the answer of GET /status/{task_id}
\* for a task that is in processing_tasks
check_task_status(task_status) ==
    [ success |-> task_status.status # "error",
      status |-> task_status.status,
      message |-> task_status.message ]

NextLive ==
    \E t \in Tasks :
        \/ UploadDocument(t)
        \/ RegisterTask(t)
        \/ ProcessDocumentInBackground(t)

SpecLive == InitTwo /\ [][NextLive]_vars /\ WF_vars(NextLive)

(***************************************************************************)
(* Properties                                                              *)
(***************************************************************************)

\* C1: after map_images_to_questions, an image whose vertical midpoint lies
\* inside the span of one or more questions resolved on its page is assigned
\* to the containing question with the smallest span y1 - y0, whatever the
\* numbers of the questions on the page are.
C1_ContainedImageGetsTightestQuestion ==
    \A t \in Tasks :
        (pc[t] \in {"uploading", "done"} /\ request[t].doc.kind = "pdf") =>
            \A k \in DOMAIN images[t] :
                LET img == images[t][k]
                    qs == questions[t]
                    containing == {i \in DOMAIN qs :
                                      /\ qs[i].page = img.page
                                      /\ qs[i].y1 >= qs[i].y
                                      /\ 2 * qs[i].y <= img.y0 + img.y1
                                      /\ img.y0 + img.y1 <= 2 * qs[i].y1}
                IN  containing # {} =>
                        \E i \in containing :
                            /\ img.question_id = qs[i].id
                            /\ \A j \in containing :
                                  qs[i].y1 - qs[i].y <= qs[j].y1 - qs[j].y

\* C2: after map_images_to_questions, an image whose midpoint no question
\* resolved on its page contains is assigned to the question of that page
\* with the minimum one-sided gap: q.y0 - img.y1 when the image is fully
\* above, img.y0 - q.y1 when fully below, 0 when they overlap.
C2_UncontainedImageGetsNearestQuestion ==
    \A t \in Tasks :
        (pc[t] \in {"uploading", "done"} /\ request[t].doc.kind = "pdf") =>
            \A k \in DOMAIN images[t] :
                LET img == images[t][k]
                    qs == questions[t]
                    on_page == {i \in DOMAIN qs : qs[i].page = img.page /\ qs[i].y1 >= qs[i].y}
                    containing == {i \in on_page :
                                      /\ 2 * qs[i].y <= img.y0 + img.y1
                                      /\ img.y0 + img.y1 <= 2 * qs[i].y1}
                    gap(i) == IF img.y1 < qs[i].y THEN qs[i].y - img.y1
                              ELSE IF img.y0 > qs[i].y1 THEN img.y0 - qs[i].y1
                              ELSE 0
                IN  (containing = {} /\ on_page # {}) =>
                        \E i \in on_page :
                            /\ img.question_id = qs[i].id
                            /\ \A j \in on_page : gap(i) <= gap(j)

\* C3: every question in the questions list of a completed result has a
\* text of at least 5 characters after trimming and at least one of the
\* options A-E non-empty after trimming.
C3_EmittedQuestionsHaveTextAndOption ==
    \A t \in Tasks :
        result[t].status = "completed" =>
            \A i \in DOMAIN result[t].questions :
                LET q == result[t].questions[i]
                IN  /\ Len(strip(q.question)) >= 5
                    /\ \E l \in {"a", "b", "c", "d", "e"} : strip(q.options[l]) # <<>>

\* a completed result that lists a question, from a document of which
\* another question was dropped
C3_Witness ==
    \E t \in Tasks :
        /\ result[t].status = "completed"
        /\ result[t].questions # <<>>
        /\ Len(result[t].questions) < Len(questions[t])

\* C4: a question whose trimmed text is shorter than 5 characters, or whose
\* five options are all empty, or whose text in lower case with whitespace
\* runs collapsed is the placeholder "gesucht: richtig/falsch" with or
\* without the trailing "?", is never in the final questions list, and each
\* such question adds exactly 1 to questions_ignored.
C4_DegenerateQuestionsAreIgnoredAndCounted ==
    \A t \in Tasks :
        (result[t].status = "completed" /\ result[t].success) =>
            LET qs == questions[t]
                degenerate(q) ==
                    \/ Len(strip(q.question)) < 5
                    \/ \A l \in {"a", "b", "c", "d", "e"} : strip(q.options[l]) = <<>>
                    \/ collapse_whitespace(strip(lower(q.question))) \in
                          { <<"g","e","s","u","c","h","t",":"," ","r","i","c","h","t","i","g",
                              "/","f","a","l","s","c","h">>,
                            <<"g","e","s","u","c","h","t",":"," ","r","i","c","h","t","i","g",
                              "/","f","a","l","s","c","h","?">> }
                after(i) == filter_questions(SubSeq(qs, 1, i))
            IN  /\ \A i \in DOMAIN result[t].questions :
                      ~degenerate(result[t].questions[i])
                /\ \A i \in DOMAIN qs :
                      degenerate(qs[i]) =>
                          /\ \A j \in DOMAIN result[t].questions :
                                result[t].questions[j].id # qs[i].id
                          /\ after(i).ignored_questions_count =
                                after(i - 1).ignored_questions_count + 1
                /\ result[t].data.questions_ignored = after(Len(qs)).ignored_questions_count

\* a successful result for a document with a placeholder question that has
\* an option, a question without options and a valid question
C4_Witness ==
    \E t \in Tasks :
        /\ result[t].status = "completed" /\ result[t].success
        /\ result[t].data.questions_ignored >= 1
        /\ \E i \in DOMAIN questions[t] :
              /\ questions[t][i].question \in {TextPlaceholder, TextPlaceholderVariant}
              /\ questions[t][i].options # NoOptions
        /\ \E i \in DOMAIN questions[t] :
              /\ questions[t][i].question = TextLen5
              /\ questions[t][i].options = NoOptions

\* C5: in every completed successful result, total_questions_extracted =
\* total_questions_processed + questions_ignored, total_questions_processed
\* is the length of the returned questions list, and questions_ignored is
\* the number of extracted questions for which should_ignore_question holds.
C5_CountersAddUp ==
    \A t \in Tasks :
        (result[t].status = "completed" /\ result[t].success) =>
            LET data == result[t].data
            IN  /\ data.total_questions_extracted =
                       data.total_questions_processed + data.questions_ignored
                /\ data.total_questions_processed = Len(result[t].questions)
                /\ data.questions_ignored =
                       Cardinality({i \in DOMAIN questions[t] :
                                       should_ignore_question(questions[t][i])})
                /\ data.total_questions_extracted = Len(questions[t])

\* a successful result with a kept and an ignored question
C5_Witness ==
    \E t \in Tasks :
        /\ result[t].status = "completed" /\ result[t].success
        /\ result[t].data.total_questions_processed >= 1
        /\ result[t].data.questions_ignored >= 1

\* C6: when process_pdf / process_docx has returned, every image with a
\* question_id references a question of the returned questions list, and no
\* image was uploaded on behalf of a question that the filter dropped.
C6_AssignedImagesReferenceEmittedQuestions ==
    \A t \in Tasks :
        (pc[t] = "done" /\ result[t].status = "completed") =>
            LET emitted == {result[t].questions[i].id : i \in DOMAIN result[t].questions}
            IN  /\ \A k \in DOMAIN images[t] :
                      images[t][k].question_id # NoId => images[t][k].question_id \in emitted
                /\ \A o \in storage : o.task = t => o.key.question_id \in emitted

\* C7: when the document cannot be opened, the result has status "failed",
\* success false, empty data and an empty questions list, and for that task
\* no image is uploaded and no question is inserted.
C7_OpenFailureFailsWithoutEffects ==
    \A t \in Tasks :
        (pc[t] = "done" /\ ~request[t].doc.opens) =>
            /\ result[t].status = "failed"
            /\ result[t].success = FALSE
            /\ result[t].data = EmptyData
            /\ result[t].questions = <<>>
            /\ \A o \in storage : o.task # t
            /\ \A row \in db : row.id[1] # t
            /\ processing_tasks[t].status = "failed"

\* a processed upload of a document that does not open
C7_Witness == \E t \in Tasks : pc[t] = "done" /\ ~request[t].doc.opens

\* C8: when extraction finds zero questions after all fallbacks, the result
\* is a success (not an error) with an empty questions list and an
\* explanatory message, and the task record reports it as a success.
C8_NoQuestionsIsSuccess ==
    \A t \in Tasks :
        LET doc == request[t].doc
            nothing_to_find == IF doc.kind = "pdf"
                               THEN doc.text_ok /\ doc.blocks = <<>> /\ doc.sentences = <<>>
                               ELSE doc.questions = <<>>
        IN  (pc[t] = "done" /\ doc.opens /\ nothing_to_find) =>
                /\ result[t].status = "completed"
                /\ result[t].success = TRUE
                /\ result[t].questions = <<>>
                /\ result[t].message # None
                /\ processing_tasks[t].status = "completed"
                /\ processing_tasks[t].success = TRUE

\* C8, as the code has it: when extraction finds zero questions, the result
\* has status "completed" (not "failed") with success false, an empty
\* questions list and an explanatory message, and the task record is
\* "completed" with success false and the same message.
C8_NoQuestionsIsCompletedWithoutSuccess ==
    \A t \in Tasks :
        LET doc == request[t].doc
            nothing_to_find == IF doc.kind = "pdf"
                               THEN doc.text_ok /\ doc.blocks = <<>> /\ doc.sentences = <<>>
                               ELSE doc.questions = <<>>
        IN  (pc[t] = "done" /\ doc.opens /\ nothing_to_find) =>
                /\ result[t].status = "completed"
                /\ result[t].success = FALSE
                /\ result[t].questions = <<>>
                /\ result[t].message # None
                /\ processing_tasks[t].status = "completed"
                /\ processing_tasks[t].success = FALSE
                /\ processing_tasks[t].message = result[t].message
                /\ db = {}

\* a processed upload of a document that opens and holds no question
C8_Witness ==
    \E t \in Tasks :
        /\ pc[t] = "done" /\ request[t].doc.opens
        /\ IF request[t].doc.kind = "pdf"
           THEN /\ request[t].doc.text_ok
                /\ request[t].doc.blocks = <<>> /\ request[t].doc.sentences = <<>>
           ELSE request[t].doc.questions = <<>>

\* C9: every invocation that opens a page-based document opens the handle
\* once and has closed it when it ends, also when an exception was raised
\* after the open.
C9_HandleClosedOnEveryExit ==
    \A t \in Tasks :
        /\ handle[t].opened <= 1
        /\ pc[t] = "done" => handle[t].closed = handle[t].opened

\* C10: for two uploads whose handling and background processing
\* interleave, the rows inserted for an upload carry the file name of that
\* upload, and its task record carries its own result.
C10_RowsCarryOwnFileName ==
    /\ \A row \in db : row.filename = request[row.id[1]].filename
    /\ \A t \in Tasks : pc[t] = "done" => processing_tasks[t].data = result[t].data

\* The result of extract_questions_with_coords(path) for invocation t
extracted_by_path(t) ==
    /\ request[t].entry = "extract"
    /\ pc[t] = "done"
    /\ result[t].status = "returned"
    /\ request[t].doc.opens

\* C13: when the primary rules produce fewer than 5 questions, the
\* whole-document fallback adds one question for every interrogative-led
\* sentence of at least 20 characters, with page -1, y 0 and no options.
C13_FallbackAddsSentencesOfTwentyCharacters ==
    \A t \in DOMAIN request :
        (extracted_by_path(t) /\ Len(request[t].doc.blocks) < FALLBACK_BELOW) =>
            \A k \in DOMAIN request[t].doc.sentences :
                LET sentence == strip(request[t].doc.sentences[k])
                IN  Len(sentence) >= 20 =>
                        \E i \in DOMAIN questions[t] :
                            /\ questions[t][i].question = sentence
                            /\ questions[t][i].page = 0 - 1
                            /\ questions[t][i].y = 0
                            /\ questions[t][i].options = NoOptions

\* C16: after coordinate resolution every question with a resolved page
\* has y1 >= y0 + 20, wherever the headers are printed.
C16_ResolvedSpanHasMinimumHeight ==
    \A t \in DOMAIN request :
        extracted_by_path(t) =>
            \A i \in DOMAIN questions[t] :
                questions[t][i].page >= 0 =>
                    questions[t][i].y1 >=
                        questions[t][i].y + ABSOLUTE_MIN_QUESTION_BLOCK_HEIGHT

\* a resolved question whose next header on the page is fewer than 25
\* units below it or lies above it, so that the minimum height decides y1
C16_Witness ==
    \E t \in DOMAIN request :
        /\ extracted_by_path(t)
        /\ \E i, j \in DOMAIN questions[t] :
              /\ j = i + 1
              /\ questions[t][i].page >= 0
              /\ questions[t][j].page = questions[t][i].page
              /\ questions[t][j].y - questions[t][i].y < 25
              /\ questions[t][i].y1 =
                     questions[t][i].y + ABSOLUTE_MIN_QUESTION_BLOCK_HEIGHT

\* C18: after coordinate resolution the spans [y0, y1] of two distinct
\* questions resolved on the same page do not overlap.
C18_SpansOnAPageDoNotOverlap ==
    \A t \in DOMAIN request :
        extracted_by_path(t) =>
            \A i, j \in DOMAIN questions[t] :
                (/\ i # j
                 /\ questions[t][i].page >= 0
                 /\ questions[t][j].page = questions[t][i].page
                 /\ questions[t][i].y <= questions[t][j].y) =>
                    questions[t][i].y1 < questions[t][j].y

\* C15: in the page-based pipeline an image whose page holds no question
\* with a resolved position is unassigned when process_pdf returns, and no
\* question's image_key was built from it.
C15_ImageOnPageWithoutQuestionStaysUnassigned ==
    \A t \in Tasks :
        (pc[t] = "done" /\ request[t].doc.kind = "pdf") =>
            \A k \in DOMAIN images[t] :
                LET img == images[t][k]
                    on_page == {i \in DOMAIN questions[t] :
                                   questions[t][i].page = img.page}
                IN  on_page = {} =>
                        /\ img.question_id = NoId
                        /\ \A i \in DOMAIN questions[t] :
                              /\ questions[t][i].image_key #
                                     image_key_of(questions[t][i].id, img.page,
                                                  (img.y0 + img.y1) \div 2, img.image_ext)
                              /\ questions[t][i].image_key #
                                     image_key_of(questions[t][i].id, img.page,
                                                  img.y0, img.image_ext)

\* The result of main(pdf_path) for invocation t, after the mapping ran
mapped_by_main(t) ==
    /\ request[t].entry = "main"
    /\ pc[t] = "done"
    /\ result[t].status = "success"

\* The question (index, 0 for none) that map_images_to_questions selects
\* for image k of invocation t: spatial match, then the quick fix
mapping_target(t, k) ==
    LET best == spatial_match(questions[t], images[t][k])
    IN  IF best = 0 THEN 0 ELSE quick_fix(questions[t], images[t][k], best)

images_mapped_to(t, i) == {k \in DOMAIN images[t] : mapping_target(t, k) = i}

\* C17: when several images are mapped to one question, the question's
\* image_key is the key built from the last of them in processing order,
\* and each of them holds the question's id.
C17_LastMappedImageSetsTheKey ==
    \A t \in DOMAIN request :
        mapped_by_main(t) =>
            \A i \in DOMAIN questions[t] :
                LET mapped == images_mapped_to(t, i)
                    last == images[t][CHOOSE k \in mapped : \A j \in mapped : j <= k]
                IN  mapped # {} =>
                        /\ questions[t][i].image_key =
                               image_key_of(questions[t][i].id, last.page,
                                            (last.y0 + last.y1) \div 2, last.image_ext)
                        /\ \A k \in mapped :
                              images[t][k].question_id = questions[t][i].id

\* two images with different keys were mapped to one question
C17_Witness ==
    \E t \in DOMAIN request :
        /\ mapped_by_main(t)
        /\ \E i \in DOMAIN questions[t] :
              \E k1, k2 \in images_mapped_to(t, i) :
                  /\ k1 < k2
                  /\ (images[t][k1].y0 + images[t][k1].y1) \div 2 #
                         (images[t][k2].y0 + images[t][k2].y1) \div 2

\* C20: in the paragraph-based path an image receives the id of the question
\* that was open when it was met, also when two questions carry the same
\* number; an image met while no question is open stays unassigned.
C20_DocxImageGetsTheOpenQuestion ==
    \A t \in Tasks :
        (request[t].doc.kind = "docx" /\ pc[t] \in {"uploading", "done"}
            /\ questions[t] # <<>>) =>
            \A k \in DOMAIN images[t] :
                LET open == request[t].doc.images[k].open_question
                IN  images[t][k].question_id =
                        IF open = 0 THEN NoId ELSE questions[t][open].id

\* process_pdf / process_docx returned a successful result for upload t
completed_with_success(t) ==
    /\ pc[t] = "done"
    /\ result[t].status = "completed"
    /\ result[t].success

\* the extracted question from which a formatted question was built
source_question(t, formatted) ==
    questions[t][CHOOSE i \in DOMAIN questions[t] : questions[t][i].id = formatted.id]

\* C14 as stated: for the exam name, the year, the semester and the subject
\* the result carries the extracted value whenever that is non-empty, and
\* the caller's value only when the extracted one is empty.
C14_ExtractedValuesWinOverMetadata ==
    \A t \in Tasks :
        completed_with_success(t) =>
            LET extracted == extract_exam_header(t)
            IN  /\ result[t].data.exam_name =
                       IF extracted.exam_name # "" THEN extracted.exam_name
                       ELSE request[t].examName
                /\ \A i \in DOMAIN result[t].questions :
                      LET fq == result[t].questions[i]
                          q == source_question(t, fq)
                      IN  /\ fq.year = IF extracted.exam_year # <<>>
                                       THEN extracted.exam_year ELSE request[t].examYear
                          /\ fq.semester = IF extracted.exam_semester # ""
                                           THEN extracted.exam_semester
                                           ELSE request[t].examSemester
                          /\ fq.subject = IF q.subject # <<>> THEN q.subject
                                          ELSE request[t].subject

\* C14, amended: the caller's exam name, year and semester are carried
\* whenever they are non-empty, and the values taken from the file name only
\* when the caller gave none; the subject of a question is the extracted one
\* when that is non-empty and the caller's default subject otherwise.
C14_MetadataWinsExceptForSubject ==
    \A t \in Tasks :
        completed_with_success(t) =>
            LET extracted == extract_exam_header(t)
            IN  /\ result[t].data.exam_name =
                       IF request[t].examName # "" THEN request[t].examName
                       ELSE extracted.exam_name
                /\ \A i \in DOMAIN result[t].questions :
                      LET fq == result[t].questions[i]
                          q == source_question(t, fq)
                      IN  /\ fq.year = IF request[t].examYear # <<>>
                                       THEN request[t].examYear ELSE extracted.exam_year
                          /\ fq.semester = IF request[t].examSemester # ""
                                           THEN request[t].examSemester
                                           ELSE extracted.exam_semester
                          /\ fq.subject = IF q.subject # <<>> THEN q.subject
                                          ELSE request[t].subject

\* a result for an upload that names the exam and a default subject, with a
\* question whose own subject was extracted
C14_Witness ==
    \E t \in Tasks :
        /\ completed_with_success(t)
        /\ request[t].examName # ""
        /\ request[t].examName # extract_exam_header(t).exam_name
        /\ request[t].subject # <<>>
        /\ \E i \in DOMAIN result[t].questions :
              /\ source_question(t, result[t].questions[i]).subject # <<>>
              /\ result[t].questions[i].subject # request[t].subject

\* C11: for a document of N underscore-separated blocks, each with a header
\* "k. Frage: ..." and options A) to E), extraction gives exactly N
\* questions, one per block, with the block's number k and with the options
\* equal to the trimmed texts that follow the markers.
C11_OneQuestionPerBlockWithItsOptions ==
    \A t \in DOMAIN request :
        (request[t].entry = "text" /\ pc[t] = "segmented") =>
            /\ Len(questions[t]) = Len(request[t].template)
            /\ \A k \in DOMAIN request[t].template :
                  \E i \in DOMAIN questions[t] :
                      /\ questions[t][i].id = <<t, k>>
                      /\ questions[t][i].question_number = request[t].template[k].number
                      /\ questions[t][i].options = request[t].template[k].options

C19_ParseDetailsOnlyFillsEmptyFields ==
    \A t \in DOMAIN request :
        (request[t].entry = "text" /\ pc[t] \in {"parsed", "reparsed"}) =>
            LET before == result[t].before
                after == IF pc[t] = "parsed" THEN questions[t] ELSE result[t].once
            IN  /\ Len(after) = Len(before)
                /\ \A i \in DOMAIN before :
                      /\ \A l \in DOMAIN NoOptions :
                            before[i].options[l] # <<>> =>
                                after[i].options[l] = before[i].options[l]
                      /\ before[i].subject # <<>> => after[i].subject = before[i].subject
                      /\ before[i].correct_answer # <<>> =>
                             after[i].correct_answer = before[i].correct_answer
                      /\ before[i].comment # <<>> => after[i].comment = before[i].comment
                      /\ after[i].question = before[i].question
                      /\ after[i].question_number = before[i].question_number
                      /\ after[i].id = before[i].id
                /\ pc[t] = "reparsed" => questions[t] = result[t].once

\* parse_question_details was called twice on a question for which the
\* segmenter had an option that differs from the one found in the text, and
\* had left another option empty that the first call filled
C19_Witness ==
    \E t \in DOMAIN request :
        /\ request[t].entry = "text"
        /\ pc[t] = "reparsed"
        /\ \E i \in DOMAIN result[t].before :
              /\ \E l \in DOMAIN NoOptions :
                    /\ result[t].before[i].options[l] # <<>>
                    /\ result[t].before[i].full_text.options[l] # <<>>
                    /\ result[t].before[i].full_text.options[l] #
                           result[t].before[i].options[l]
              /\ \E l \in DOMAIN NoOptions :
                    /\ result[t].before[i].options[l] = <<>>
                    /\ result[t].once[i].options[l] # <<>>

\* C21: after map_images_to_questions_docx two different images assigned to
\* the same question never carry the same image_key
C21_ImagesOfOneQuestionHaveDistinctKeys ==
    \A t \in Tasks :
        (request[t].entry = "docx" /\ pc[t] = "mapped") =>
            \A i, j \in DOMAIN images[t] :
                (i # j /\ images[t][i].question_id # NoId
                       /\ images[t][i].question_id = images[t][j].question_id)
                    => images[t][i].image_key # images[t][j].image_key

\* C22: every a:blip of a walked paragraph whose r:embed names an image part
\* has exactly one entry in the images list
C22_OneEntryPerEmbeddedImage ==
    \A t \in Tasks :
        (request[t].entry = "docx" /\ pc[t] = "walked") =>
            LET doc == request[t].doc
                occurrences ==
                    { <<p, k>> \in (DOMAIN doc.paragraphs) \X (1..2) :
                        /\ ~is_separator_line(strip(doc.paragraphs[p].text))
                        /\ k \in DOMAIN doc.paragraphs[p].blips
                        /\ doc.paragraphs[p].blips[k].embed_id \in DOMAIN doc.image_map }
            IN  Len(images[t]) = Cardinality(occurrences)

\* the document_position values handed out so far in the walk of task t
positions_of(qs, imgs, current_question) ==
    {qs[i].document_position : i \in DOMAIN qs}
        \cup {imgs[k].document_position : k \in DOMAIN imgs}
        \cup (IF current_question = NoQuestion THEN {}
              ELSE {current_question.document_position})

\* C23: during the walk of extract_content_from_docx every question or image
\* created by a paragraph has a larger document_position than everything
\* created before it, and no two of them share a value
C23_DocumentPositionsStrictlyIncrease ==
    [][\A t \in Tasks :
          (pc[t] = "walk" /\ pc'[t] = "walk") =>
              LET before == positions_of(questions[t], images[t], handle[t].current_question)
                  after == positions_of(questions'[t], images'[t], handle'[t].current_question)
                  new_images == (Len(images[t]) + 1)..Len(images'[t])
                  new_question == /\ handle'[t].current_question # NoQuestion
                                  /\ handle'[t].current_question # handle[t].current_question
              IN  /\ \A p \in before : p < handle[t].document_position
                  /\ \A k \in new_images :
                        /\ images'[t][k].document_position >= handle[t].document_position
                        /\ k > 1 => images'[t][k - 1].document_position
                                        < images'[t][k].document_position
                        /\ new_question => handle'[t].current_question.document_position
                                               < images'[t][k].document_position
                  /\ new_question => handle'[t].current_question.document_position
                                         >= handle[t].document_position
                  /\ Cardinality(after) =
                        Len(questions'[t]) + Len(images'[t])
                            + (IF handle'[t].current_question = NoQuestion THEN 0 ELSE 1)
       ]_vars

C23_Witness ==
    \E t \in Tasks :
        /\ pc[t] = "walked"
        /\ Len(questions[t]) >= 1
        /\ \E i, j \in DOMAIN images[t] :
              /\ images[t][i].document_position < questions[t][1].document_position
              /\ images[t][j].document_position > questions[t][1].document_position

\* C24: a question of a block whose header search fails on every page has
\* page -1 and y 0, and when process_pdf has returned no image is assigned to
\* it and it has no image_key
C24_QuestionWithoutHeaderGetsNoImage ==
    \A t \in Tasks :
        (pc[t] = "done" /\ request[t].doc.kind = "pdf") =>
            \A i \in DOMAIN questions[t] :
                LET q == questions[t][i]
                IN  (/\ q.id[2] <= Len(request[t].doc.blocks)
                     /\ search_results(request[t].doc, q.question_number) = {})
                        => /\ q.page = -1
                           /\ q.y = 0
                           /\ q.image_key = NoKey
                           /\ \A k \in DOMAIN images[t] : images[t][k].question_id # q.id

\* C25: when process_pdf has returned, the image_key of a question is the
\* composite of the question's id with the page, the floor of the vertical
\* midpoint and the extension of an image assigned to that question
C25_ImageKeyIsCompositeOfAnAssignedImage ==
    \A t \in Tasks :
        (pc[t] = "done" /\ request[t].doc.kind = "pdf") =>
            \A i \in DOMAIN questions[t] :
                LET q == questions[t][i]
                IN  q.image_key # NoKey =>
                        \E k \in DOMAIN images[t] :
                            /\ images[t][k].question_id = q.id
                            /\ q.image_key =
                                   image_key_of(q.id, images[t][k].page,
                                       (images[t][k].y0 + images[t][k].y1) \div 2,
                                       images[t][k].image_ext)

\* C26: a question whose text consists only of digits, whitespace and
\* punctuation characters is in no completed result, also when it has options
C26_DigitsAndPunctuationAreRejected ==
    \A t \in Tasks :
        result[t].status = "completed" =>
            \A i \in DOMAIN result[t].questions :
                \E k \in DOMAIN result[t].questions[i].question :
                    LET c == result[t].questions[i].question[k]
                    IN  ~IsDigit(c) /\ c \notin Whitespace /\ c \notin Punctuation

\* C27: the list returned by extract_images_with_coords holds no two images
\* extracted from the same xref and no two images whose leading 1000 bytes
\* have the same hash
C27_ReturnedImagesAreUnique ==
    \A t \in Tasks :
        (request[t].entry = "images" /\ pc[t] = "done") =>
            \A i, j \in DOMAIN images[t] :
                i # j => /\ images[t][i].xref # images[t][j].xref
                         /\ md5(images[t][i].head) # md5(images[t][j].head)

\* a returned list of two images from which a third, with the leading bytes
\* of one of them, was removed
C27_Witness ==
    \E t \in Tasks :
        /\ request[t].entry = "images"
        /\ pc[t] = "done"
        /\ Len(images[t]) = 2
        /\ {1, 2, 5} \subseteq handle[t].extracted_xrefs

\* C28: a batch job whose provider reported a state that is not final keeps
\* a stored status inside the open set of get_open_batch_jobs, so the next
\* run polls it again.
C28_UnfinishedJobStaysOpen ==
    \A b \in Tasks :
        (request[b].entry = "batch" /\ db.jobs[b] \in NotFinal) => db.jobs[b] \in OpenStatuses

\* the owner's quota spent since the run began: free uses plus paid credits
quota_spent(before, now) ==
    LET free(row) == IF row = NoRow THEN 0 ELSE row.free_used_count
        paid(row) == IF row = NoRow THEN 0 ELSE row.paid_credits_remaining
    IN  (free(now) - free(before)) + (paid(before) - paid(now))

\* C29: over every sequence of status updates of the one question, the
\* owner's quota (free uses plus paid credits spent) grows by at most 1.
C29_QuotaConsumedAtMostOnce ==
    \A b \in Tasks :
        request[b].entry = "batch" => quota_spent(request[b].quota_before, db.quota) <= 1

RECURSIVE pow2(_)
pow2(n) == IF n <= 0 THEN 1 ELSE 2 * pow2(n - 1)

retry_finished(t) == pc[t] \in {"returned", "raised"}

\* what holds of a call of retry_with_backoff at every moment
retry_safe(t) ==
    LET h == handle[t]
        calls == Len(h.outcomes)
    IN  /\ calls <= request[t].retries + 1
        /\ \A k \in 1..(calls - 1) : h.outcomes[k].kind = "exception"
        /\ Len(h.waits) = (IF pc[t] = "call" THEN calls ELSE calls - 1)
        /\ \A k \in 1..Len(h.waits) : h.waits[k] = request[t].delay * pow2(k - 1)
        /\ pc[t] = "returned" =>
              /\ h.outcomes[calls].kind = "returns"
              /\ result[t] = [returned |-> h.outcomes[calls].value]
        /\ pc[t] = "raised" =>
              /\ h.outcomes[calls].kind # "returns"
              /\ result[t] = [raised |-> h.outcomes[calls].value]
        /\ (pc[t] = "raised" /\ h.outcomes[calls].kind = "exception") =>
              calls = request[t].retries + 1

\* C30: retry_with_backoff calls fn at most retries + 1 times, makes no
\* call after the first success and returns its value, sleeps
\* delay * 2^(k-1) milliseconds before the k-th retry, raises the last error
\* when every attempt failed, and finishes.
C30_RetryWithBackoffIsBoundedAndFinishes ==
    /\ [](\A t \in Tasks : request[t].entry = "retry" => retry_safe(t))
    /\ \A t \in {1} : <>(request[t].entry = "retry" => retry_finished(t))

\* every attempt of a call with two or more retries failed, and the error of
\* the last one was raised after the sleeps
C30_Witness ==
    \E t \in Tasks :
        /\ request[t].entry = "retry"
        /\ request[t].retries >= 2
        /\ pc[t] = "raised"
        /\ Len(handle[t].outcomes) = request[t].retries + 1
        /\ Len(handle[t].waits) = request[t].retries
        /\ handle[t].outcomes[1].value # result[t].raised

\* a private question that find_candidates must not return
not_eligible(row) ==
    /\ visibility_of(row) # "university"
    /\ row.user_id = None \/ row.user_id \notin db.premium

\* C31: the ids_to_process of a run hold no private question whose owner is
\* not premium or is unknown, at most batch_size ids, and every
\* university-visible id before every private id.
C31_OnlyEligibleIdsWithinBatchSize ==
    \A t \in Tasks :
        request[t].entry = "submit" =>
            LET ids == handle[t].ids_to_process
            IN  /\ \A k \in DOMAIN ids : ~not_eligible(db.questions[ids[k]])
                /\ Len(ids) <= request[t].batch_size
                /\ \A j, k \in DOMAIN ids :
                      (/\ visibility_of(db.questions[ids[j]]) = "university"
                       /\ visibility_of(db.questions[ids[k]]) # "university") => j < k

\* the selects returned a private question that is not eligible before a
\* university-visible one, and the run goes on with the latter only
C31_Witness ==
    \E t \in Tasks :
        /\ request[t].entry = "submit"
        /\ pc[t] = "found"
        /\ Len(handle[t].candidate_questions) = 2
        /\ not_eligible(db.questions[handle[t].candidate_questions[1]])
        /\ handle[t].ids_to_process = <<handle[t].candidate_questions[2]>>
        /\ visibility_of(db.questions[handle[t].candidate_questions[2]]) = "university"

\* C34: two submit runs that overlap between claim_questions and the
\* submissions hold no claimed question in common.
C34_QuestionClaimedByOneRun ==
    \A t, u \in Tasks :
        (/\ request[t].entry = "submit" /\ request[u].entry = "submit"
         /\ t # u
         /\ pc[t] = "claimed" /\ pc[u] = "claimed") =>
            handle[t].claimed_questions \cap handle[u].claimed_questions = {}

selected_again(q) ==
    \E t \in Tasks : pc[t] = "found" /\ q \in ids_of(handle[t].ids_to_process)

\* C36: a question in status 'processing' is later completed or failed, or
\* is in the ids_to_process of a run of find_candidates.
C36_ProcessingQuestionIsFinishedOrSelectedAgain ==
    \A q \in 1..2 :
        (/\ request[1].entry = "submit"
         /\ q \in DOMAIN db.questions
         /\ db.questions[q].ai_commentary_status = "processing")
        ~> (\/ db.questions[q].ai_commentary_status \in {"completed", "failed"}
            \/ selected_again(q))

\* C37: a pending question that is eligible is later in the ids_to_process
\* of a run, whatever other pending questions exist.
C37_EligiblePendingQuestionIsSelected ==
    \A q \in 1..2 :
        (/\ request[1].entry = "submit"
         /\ q \in DOMAIN db.questions
         /\ db.questions[q].ai_commentary_status = "pending"
         /\ ~not_eligible(db.questions[q]))
        ~> selected_again(q)

\* C35: for every subject job, at most one invocation of process_job_by_id
\* enters process_assign_job / process_reassign_job.
C35_JobProcessedByOneInvocation ==
    \A t, u \in Tasks :
        (/\ request[t].entry = "job" /\ request[u].entry = "job"
         /\ t # u
         /\ handle[t].entered # None /\ handle[u].entered # None) =>
            handle[t].job.id # handle[u].job.id

terminal_status(t) == processing_tasks[t].status \in {"completed", "failed"}

\* C32: a task registered by POST /upload with status 'processing' later
\* has the status 'completed' or 'failed', and a task with one of these
\* never returns to 'processing'.
C32_RegisteredTaskReachesTerminalStatus ==
    /\ \A t \in {1, 2} :
          (processing_tasks[t].status = "processing") ~> terminal_status(t)
    /\ [][\A t \in Tasks :
             terminal_status(t) => terminal_status(t)']_vars

\* one task ended with only a part of its questions stored, the other with
\* process_document raising
C32_Witness ==
    /\ pc = <<"done", "done">>
    /\ processing_tasks[1].status = "completed"
    /\ processing_tasks[1].message = "teilweise gespeichert"
    /\ processing_tasks[2].status = "failed"
    /\ result[2] = NoResult

\* C33: the answer of GET /status has success = false for every task stored
\* with status 'failed' or with success = false, and success = true only
\* for a task still processing or stored as successful.
C33_StatusAnswersFailureForFailedTasks ==
    \A t \in Tasks :
        processing_tasks[t] # NoTask =>
            LET stored == processing_tasks[t]
                answer == check_task_status(stored)
                stored_success == IF "success" \in DOMAIN stored THEN stored.success
                                  ELSE stored.status = "processing"
            IN  /\ stored.status = "failed" => ~answer.success
                /\ ~stored_success => ~answer.success
                /\ answer.success => (stored.status = "processing" \/ stored_success)

\* C38: a question created from a block without a "k. Frage" header, which
\* is numbered by its block index, still has page -1 after the coordinate
\* resolution: it is not given the page and y of another question's header
C38_HeaderlessQuestionKeepsNoPage ==
    \A t \in Tasks :
        (pc[t] = "done" /\ request[t].doc.kind = "pdf") =>
            \A i \in DOMAIN questions[t] :
                LET q == questions[t][i]
                    blocks == request[t].doc.blocks
                IN  (q.id[2] <= Len(blocks) /\ blocks[q.id[2]].kind = "alt")
                        => /\ q.page = -1
                           /\ \A j \in DOMAIN blocks :
                                 blocks[j].kind = "hdr" =>
                                     ~(q.page = blocks[j].spot.page /\ q.y = blocks[j].spot.y)

\* C39: a question recognised by its header, in any of the forms the
\* segmenter's pattern accepts, printed on a page, has page >= 0 after the
\* coordinate resolution
C39_HeaderQuestionGetsPage ==
    \A t \in Tasks :
        pc[t] \in {"segmented", "parsed", "reparsed"} =>
            \A i \in DOMAIN questions[t] :
                LET q == questions[t][i]
                    blocks == doc_of_text(request[t].text).blocks
                IN  (q.id[2] <= Len(blocks) /\ blocks[q.id[2]].kind = "hdr")
                        => q.page >= 0

====
